---- MODULE Spec2Model ----
(***************************************************************************)
(* A model of scripts/models/transformers.py and scripts/utils/data.py.    *)
(*                                                                         *)
(* Numbers.  A float is a pair: <<n, 1>> is the finite value n / Scale     *)
(* (fixed point: every operation rounds its result to the nearest multiple *)
(* of 1 / Scale), <<0,0>> is not-a-number, <<1,0>> and <<-1,0>> are the    *)
(* infinities.  Arithmetic on the specials follows IEEE (0 * inf = NaN,    *)
(* inf - inf = NaN, x / 0 = inf, 0 / 0 = NaN).  sin, cos, exp, sqrt, GELU, *)
(* sigmoid and tanh are computed from tables in hundredths.                *)
(*                                                                         *)
(* Tensors.  A tensor is [shape |-> <<d1,...,dk>>, data |-> <<...>>] with  *)
(* the data in row-major (contiguous) order, as torch stores it, so that   *)
(* view/flatten reinterpret the same data and transpose/permute move it.   *)
(*                                                                         *)
(* Modules.  obj is the module instance under use (or the error its        *)
(* constructor raised), call the last forward call on it with its outcome, *)
(* prev the call before that.  A forward pass leaves the module as it was,    *)
(* so one call per instance is explored (two where two calls are compared).*)
(* Dropout layers are in evaluation mode.                                  *)
(***************************************************************************)
EXTENDS Integers, Sequences, FiniteSets, TLC

VARIABLES obj, call, prev

vars == <<obj, call, prev>>

(***************************************************************************)
(* Bounds of the model.                                                    *)
(***************************************************************************)
MaxImg == 4
MaxBatch == 2
MaxChan == 2
MaxSeed == 2
MaxLen == 3
MaxEmbed == 4
MaxHeads == 2
MaxTok == 2
MaxLayers == 2
MaxFrames == 3
MaxHidden == 2
FeatureDim == 2
NumClasses == 2
MaxFiles == 3
MaxSeqLen == 3
RngStates == 4
DefaultSize == 2
Scale == 100

None == [kind |-> "None"]

Seeds == 0..MaxSeed

(***************************************************************************)
(* Floats in fixed point, with the IEEE specials.                          *)
(***************************************************************************)
Abs(n) == IF n < 0 THEN -n ELSE n

Sgn(n) == IF n > 0 THEN 1 ELSE IF n < 0 THEN -1 ELSE 0

\* n / d (d > 0) rounded to the nearest whole number, halves up
RoundDiv(n, d) == (2 * n + d) \div (2 * d)

\* the float nearest to n / d; x / 0 is an infinity, 0 / 0 not a number
RNorm(n, d) ==
    IF d = 0 THEN <<Sgn(n), 0>>
    ELSE <<RoundDiv(Sgn(d) * n * Scale, Abs(d)), 1>>

\* the float of a whole number
R(n) == <<n * Scale, 1>>

NaN == <<0, 0>>

NegInf == <<-1, 0>>

IsNaN(a) == a = NaN

IsFinite(a) == a[2] # 0

RAdd(a, b) ==
    IF a[2] # 0 /\ b[2] # 0 THEN <<a[1] + b[1], 1>>
    ELSE IF a[2] # 0 THEN b
    ELSE IF b[2] # 0 THEN a
    ELSE IF a = b THEN a ELSE NaN

RMul(a, b) ==
    IF a[2] # 0 /\ b[2] # 0 THEN <<RoundDiv(a[1] * b[1], Scale), 1>>
    ELSE <<Sgn(a[1]) * Sgn(b[1]), 0>>

RNeg(a) == <<-a[1], a[2]>>

RSub(a, b) == RAdd(a, RNeg(b))

RDiv(a, b) ==
    IF IsNaN(a) \/ IsNaN(b) THEN NaN
    ELSE IF a[2] # 0 /\ b[2] # 0
    THEN (IF b[1] = 0 THEN <<Sgn(a[1]), 0>>
          ELSE <<RoundDiv(Sgn(b[1]) * a[1] * Scale, Abs(b[1])), 1>>)
    ELSE IF a[2] # 0 THEN R(0)
    ELSE IF b[2] # 0 THEN <<a[1] * (IF b[1] < 0 THEN -1 ELSE 1), 0>>
    ELSE NaN

\* a < b on floats that are not NaN
RLess(a, b) ==
    IF a[2] # 0 /\ b[2] # 0 THEN a[1] < b[1]
    ELSE IF a[2] # 0 THEN b[1] > 0
    ELSE IF b[2] # 0 THEN a[1] < 0
    ELSE a[1] < b[1]

RMax(a, b) == IF IsNaN(a) \/ IsNaN(b) THEN NaN ELSE IF RLess(a, b) THEN b ELSE a

RECURSIVE RSumTo(_, _)
RSumTo(f, n) == IF n = 0 THEN R(0) ELSE RAdd(RSumTo(f, n - 1), f[n])

\* sum of a sequence of floats, left to right
RSum(f) == RSumTo(f, Len(f))

(***************************************************************************)
(* Tensors.                                                                *)
(***************************************************************************)
RECURSIVE ProdTo(_, _)
ProdTo(s, n) == IF n = 0 THEN 1 ELSE ProdTo(s, n - 1) * s[n]

Numel(shape) == ProdTo(shape, Len(shape))

Ndim(t) == Len(t.shape)

\* element of a rank-3 / rank-4 tensor at zero-based indices
At3(t, i, j, k) ==
    t.data[(i * t.shape[2] + j) * t.shape[3] + k + 1]

At4(t, i, j, k, l) ==
    t.data[((i * t.shape[2] + j) * t.shape[3] + k) * t.shape[4] + l + 1]

\* a sequence with its elements computed once (no change of value)
Seq1(f) == f \o <<>>

\* rank-3 / rank-4 tensor from its elements
Mk3(d1, d2, d3, F(_, _, _)) ==
    [shape |-> <<d1, d2, d3>>,
     data  |-> Seq1([n \in 1..(d1 * d2 * d3) |->
                  F((n - 1) \div (d2 * d3), ((n - 1) \div d3) % d2, (n - 1) % d3)])]

Mk4(d1, d2, d3, d4, F(_, _, _, _)) ==
    [shape |-> <<d1, d2, d3, d4>>,
     data  |-> Seq1([n \in 1..(d1 * d2 * d3 * d4) |->
                  F((n - 1) \div (d2 * d3 * d4), ((n - 1) \div (d3 * d4)) % d2,
                    ((n - 1) \div d4) % d3, (n - 1) % d4)])]

\* x.view(shape): the same contiguous data under another shape
View(t, shape) == [shape |-> shape, data |-> t.data]

\* a parameter tensor's k-th element under weight setting `seed`:
\* setting 0 is all zeros, 1 all ones, the others mix -1, 0, 1
Param(seed, salt, k) ==
    IF seed = 0 THEN R(0)
    ELSE IF seed = 1 THEN R(1)
    ELSE R(((seed * (k + salt + 1)) % 3) - 1)

\* an input tensor: pattern 0 is all zeros, the others vary with the position
Fill(shape, pat) ==
    [shape |-> shape,
     data  |-> Seq1([n \in 1..Numel(shape) |-> R((pat * n) % 3)])]

(***************************************************************************)
(* PatchEmbedding                                                          *)
(***************************************************************************)
\* nn.Conv2d(in_channels, embed_dim, kernel_size, stride): weight
\* [out, in, k, k] and bias [out]
Conv2dInit(in_channels, out_channels, kernel_size, stride, wseed, bseed) ==
    [in_channels |-> in_channels, out_channels |-> out_channels,
     kernel_size |-> kernel_size, stride |-> stride,
     weight |-> Mk4(out_channels, in_channels, kernel_size, kernel_size,
                    LAMBDA o, c, i, j :
                      Param(wseed, 0, ((o * in_channels + c) * kernel_size + i) * kernel_size + j)),
     bias |-> Seq1([o \in 1..out_channels |-> Param(bseed, 1, o)])]

\* PatchEmbedding.__init__ without its divisibility check
PatchEmbeddingInitUnchecked(img_size, patch_size, in_channels, embed_dim, wseed, bseed) ==
    [class |-> "PatchEmbedding", error |-> "none",
     img_size |-> img_size, patch_size |-> patch_size,
     num_patches |-> (img_size \div patch_size) * (img_size \div patch_size),
     proj |-> Conv2dInit(in_channels, embed_dim, patch_size, patch_size, wseed, bseed)]

PatchEmbeddingInit(img_size, patch_size, in_channels, embed_dim, wseed, bseed) ==
    LET num_patches == (img_size \div patch_size) * (img_size \div patch_size)
    IN  IF img_size % patch_size # 0
        THEN [class |-> "PatchEmbedding", error |-> "ValueError"]
        ELSE [class |-> "PatchEmbedding", error |-> "none",
              img_size |-> img_size, patch_size |-> patch_size,
              num_patches |-> num_patches,
              proj |-> Conv2dInit(in_channels, embed_dim, patch_size, patch_size,
                                  wseed, bseed)]

\* output height/width of an unpadded convolution
ConvOutSize(n, kernel_size, stride) == ((n - kernel_size) \div stride) + 1

\* Conv2d.forward on a rank-4 input [B, C, H, W]
Conv2dForward(conv, x) ==
    IF x.shape[2] # conv.in_channels
         \/ x.shape[3] < conv.kernel_size \/ x.shape[4] < conv.kernel_size
    THEN [error |-> "RuntimeError"]
    ELSE LET K  == conv.kernel_size
             Ho == ConvOutSize(x.shape[3], K, conv.stride)
             Wo == ConvOutSize(x.shape[4], K, conv.stride)
             Term(b, o, p, q, n) ==
                 LET c == (n - 1) \div (K * K)
                     i == ((n - 1) \div K) % K
                     j == (n - 1) % K
                 IN  RMul(At4(conv.weight, o, c, i, j),
                          At4(x, b, c, p * conv.stride + i, q * conv.stride + j))
         IN  [error |-> "none",
              out |-> Mk4(x.shape[1], conv.out_channels, Ho, Wo,
                          LAMBDA b, o, p, q :
                            RAdd(RSum([n \in 1..(conv.in_channels * K * K) |->
                                         Term(b, o, p, q, n)]),
                                 conv.bias[o + 1]))]

\* x.flatten(2) on a rank-4 tensor
Flatten2(t) == View(t, <<t.shape[1], t.shape[2], t.shape[3] * t.shape[4]>>)

\* transpose(1, 2) left out: the tensor stays [B, embed_dim, num_patches]
Transpose12Skipped(t) == t

\* x.transpose(1, 2) on a rank-3 tensor
Transpose12(t) ==
    Mk3(t.shape[1], t.shape[3], t.shape[2], LAMBDA i, j, k : At3(t, i, k, j))

\* x.flatten(2).transpose(1, 2) on the result y of self.proj
FlattenPatches(y) ==
    IF y.error # "none" THEN y
    ELSE [error |-> "none", out |-> Transpose12(Flatten2(y.out))]

PatchEmbeddingForward(self, x) ==
    IF Ndim(x) # 4 \/ x.shape[3] # self.img_size \/ x.shape[4] # self.img_size
    THEN [error |-> "ValueError"]
    ELSE FlattenPatches(Conv2dForward(self.proj, x))

(***************************************************************************)
(* PositionalEncoding                                                      *)
(***************************************************************************)
\* sin and cos of 0, 1, 2, ... radians, in hundredths
SinTable == <<0, 84, 91, 14, -76, -96, -28, 66, 99, 41>>

CosTable == <<100, 54, -42, -99, -65, 28, 96, 75, -15, -91>>

IsWhole(a) == a[1] % Scale = 0

\* torch.sin / torch.cos to two decimals: a whole number of radians from the
\* table, an angle below 1 from its Taylor polynomial
Sin(a) ==
    IF IsWhole(a) THEN RNorm(SinTable[(a[1] \div Scale) + 1], 100)
    ELSE RSub(a, RDiv(RMul(a, RMul(a, a)), R(6)))

Cos(a) ==
    IF IsWhole(a) THEN RNorm(CosTable[(a[1] \div Scale) + 1], 100)
    ELSE RSub(R(1), RDiv(RMul(a, a), R(2)))

\* div_term[i] = exp(2i * (-ln 10000 / embed_dim)) = 10000^(-2i/embed_dim)
DivTerm(i, embed_dim) ==
    CASE i = 0 -> R(1)
      [] 4 * i = embed_dim -> RNorm(1, 100)
      [] 8 * i = embed_dim -> RNorm(1, 10)
      [] 8 * i = 3 * embed_dim -> RNorm(1, 1000)

\* pe[p, c]: sine at the even columns, cosine at the odd ones
PEEntry(p, c, embed_dim) ==
    LET angle == RMul(R(p), DivTerm(c \div 2, embed_dim))
    IN  IF c % 2 = 0 THEN Sin(angle) ELSE Cos(angle)

PositionalEncodingInit(embed_dim, max_len) ==
    IF embed_dim % 2 # 0
    THEN [class |-> "PositionalEncoding", error |-> "ValueError"]
    ELSE [class |-> "PositionalEncoding", error |-> "none",
          pe |-> Mk3(1, max_len, embed_dim,
                     LAMBDA b, p, c : PEEntry(p, c, embed_dim))]

\* the length check off by one: a sequence of exactly max_len is refused
PositionalEncodingForwardStrict(self, x) ==
    IF x.shape[3] # self.pe.shape[3] \/ x.shape[2] >= self.pe.shape[2]
    THEN [error |-> "ValueError", self |-> self]
    ELSE [error |-> "none", self |-> self,
          out |-> Mk3(x.shape[1], x.shape[2], x.shape[3],
                      LAMBDA b, p, c : RAdd(At3(x, b, p, c), At3(self.pe, 0, p, c)))]

\* PositionalEncoding.forward on a rank-3 input; `self` is the module after
\* the call
PositionalEncodingForward(self, x) ==
    IF x.shape[3] # self.pe.shape[3]
    THEN [error |-> "ValueError", self |-> self]
    ELSE IF x.shape[2] > self.pe.shape[2]
    THEN [error |-> "ValueError", self |-> self]
    ELSE [error |-> "none", self |-> self,
          out |-> Mk3(x.shape[1], x.shape[2], x.shape[3],
                      LAMBDA b, p, c : RAdd(At3(x, b, p, c), At3(self.pe, 0, p, c)))]

(***************************************************************************)
(* Linear layers, softmax and MultiHeadSelfAttention                       *)
(***************************************************************************)
\* nn.Linear(in_features, out_features): weight [out, in] and bias [out]
LinearInit(in_features, out_features, wseed, bseed, salt) ==
    [in_features |-> in_features, out_features |-> out_features,
     weight |-> Seq1([n \in 1..(out_features * in_features) |-> Param(wseed, salt, n)]),
     bias |-> Seq1([o \in 1..out_features |-> Param(bseed, salt + 1, o)])]

\* Linear.forward on a rank-3 input [B, L, in_features]
LinearForward(lin, x) ==
    Mk3(x.shape[1], x.shape[2], lin.out_features,
        LAMBDA b, l, o :
          RAdd(RSum([i \in 1..lin.in_features |->
                       RMul(At3(x, b, l, i - 1),
                            lin.weight[o * lin.in_features + i])]),
               lin.bias[o + 1]))

\* Linear.forward on a rank-2 input [B, in_features]
LinearForward2(lin, x) ==
    [shape |-> <<x.shape[1], lin.out_features>>,
     data  |-> Seq1([n \in 1..(x.shape[1] * lin.out_features) |->
                  LET b == (n - 1) \div lin.out_features
                      o == (n - 1) % lin.out_features
                  IN  RAdd(RSum([i \in 1..lin.in_features |->
                                   RMul(x.data[b * lin.in_features + i],
                                        lin.weight[o * lin.in_features + i])]),
                           lin.bias[o + 1])])]

\* nn.Dropout in evaluation mode
Dropout(x) == x

\* floor of the square root of a natural number
RECURSIVE ISqrtIn(_, _, _)
ISqrtIn(n, lo, hi) ==
    IF lo = hi THEN lo
    ELSE LET mid == (lo + hi + 1) \div 2
         IN  IF mid * mid <= n THEN ISqrtIn(n, mid, hi) ELSE ISqrtIn(n, lo, mid - 1)

ISqrt(n) == ISqrtIn(n, 0, IF n < 46340 THEN n ELSE 46340)

\* torch.sqrt / math.sqrt of a non-negative float, rounded to the nearest float
RSqrt(a) == <<(ISqrt(4 * a[1] * Scale) + 1) \div 2, 1>>

\* a function tabulated in hundredths at the whole numbers lo, lo + 1, ...,
\* interpolated linearly in between and constant outside the table
Interp(table, lo, a) ==
    LET k  == a[1] \div Scale
        fr == a[1] % Scale
    IN  IF k < lo THEN RNorm(table[1], 100)
        ELSE IF k >= lo + Len(table) - 1 THEN RNorm(table[Len(table)], 100)
        ELSE RNorm(table[k - lo + 1] * Scale + (table[k - lo + 2] - table[k - lo + 1]) * fr,
                   100 * Scale)

\* e^t at t = -6, ..., 0, in hundredths
ExpTable == <<0, 1, 2, 5, 14, 37, 100>>

\* torch.exp of a float that is at most 0; exp(-inf) = 0
Exp(a) ==
    IF IsNaN(a) THEN NaN
    ELSE IF a = NegInf THEN R(0)
    ELSE Interp(ExpTable, -6, a)

RECURSIVE RMaxTo(_, _)
RMaxTo(f, n) == IF n = 1 THEN f[1] ELSE RMax(RMaxTo(f, n - 1), f[n])

\* torch.softmax over a non-empty sequence of scores: exp(s - max) / sum.
\* A row of -inf only has max = -inf, and -inf - -inf is not a number.
Softmax(row) ==
    LET m == RMaxTo(row, Len(row))
        e == Seq1([j \in 1..Len(row) |-> Exp(RSub(row[j], m))])
        z == RSum(e)
    IN  Seq1([j \in 1..Len(row) |-> RDiv(e[j], z)])

\* the attention weights used as they come out of softmax
NanToNumSkipped(a) == a

\* torch.nan_to_num(a, nan=0.0) on a value that is not infinite
NanToNum(a) == IF IsNaN(a) THEN R(0) ELSE a

\* the divisibility assertion left out
MultiHeadSelfAttentionInitUnchecked(embed_dim, num_heads, wseed, bseed, salt) ==
    [class |-> "MultiHeadSelfAttention", error |-> "none",
     embed_dim |-> embed_dim, num_heads |-> num_heads,
     head_dim |-> embed_dim \div num_heads,
     qkv |-> LinearInit(embed_dim, embed_dim * 3, wseed, bseed, salt + 2),
     proj |-> LinearInit(embed_dim, embed_dim, wseed, bseed, salt + 4)]

MultiHeadSelfAttentionInit(embed_dim, num_heads, wseed, bseed, salt) ==
    IF embed_dim % num_heads # 0
    THEN [class |-> "MultiHeadSelfAttention", error |-> "AssertionError"]
    ELSE [class |-> "MultiHeadSelfAttention", error |-> "none",
          embed_dim |-> embed_dim, num_heads |-> num_heads,
          head_dim |-> embed_dim \div num_heads,
          qkv |-> LinearInit(embed_dim, embed_dim * 3, wseed, bseed, salt + 2),
          proj |-> LinearInit(embed_dim, embed_dim, wseed, bseed, salt + 4)]

\* mask[b, j] of a mask tensor [B, L]
MaskAt(mask, b, j) == mask.data[b * mask.shape[2] + j + 1]

\* scores.masked_fill(mask == 0, -inf) with the mask broadcast over heads and
\* query positions
MaskedFill(score, mask, b, j) ==
    IF mask # None /\ MaskAt(mask, b, IF mask.shape[2] = 1 THEN 0 ELSE j) = 0
    THEN NegInf ELSE score

\* MultiHeadSelfAttention.forward on a rank-3 input
\* attention of every head over a projected qkv tensor [B, L, 3 * E], the
\* heads put side by side again: [B, L, E]
AttentionHeads(self, qkv, mask) ==
    LET B  == qkv.shape[1]
        L  == qkv.shape[2]
        E  == self.embed_dim
        hd == self.head_dim
        \* qkv.reshape(B, L, 3, H, hd).permute(2, 0, 3, 1, 4)
        Q(b, h, l, d) == At3(qkv, b, l, h * hd + d)
        K(b, h, l, d) == At3(qkv, b, l, E + h * hd + d)
        V(b, h, l, d) == At3(qkv, b, l, 2 * E + h * hd + d)
        Score(b, h, i, j) ==
            RDiv(RSum([d \in 1..hd |-> RMul(Q(b, h, i, d - 1), K(b, h, j, d - 1))]),
                 RSqrt(R(hd)))
        H  == self.num_heads
        \* attn[(b * H + h) * L + i + 1] is the row of weights of query i of
        \* head h over the keys
        attn == Seq1([r \in 1..(B * H * L) |->
                   LET b == (r - 1) \div (H * L)
                       h == ((r - 1) \div L) % H
                       i == (r - 1) % L
                       row == Softmax(Seq1([j \in 1..L |->
                                MaskedFill(Score(b, h, i, j - 1), mask, b, j - 1)]))
                   IN  Seq1([j \in 1..L |-> Dropout(NanToNum(row[j]))])])
    IN  \* matmul(attn, v).transpose(1, 2).contiguous().view(B, L, E)
        Mk3(B, L, E,
            LAMBDA b, i, c :
              RSum([j \in 1..L |->
                      RMul(attn[(b * H + c \div hd) * L + i + 1][j],
                           V(b, c \div hd, j - 1, c % hd))]))

MultiHeadSelfAttentionForward(self, x, mask) ==
    IF x.shape[3] # self.embed_dim THEN [error |-> "AssertionError"]
    ELSE [error |-> "none",
          out |-> Dropout(LinearForward(self.proj,
                      AttentionHeads(self, LinearForward(self.qkv, x), mask)))]

(***************************************************************************)
(* LayerNorm, TransformerEncoderLayer, TransformerEncoder,                 *)
(* TemporalTransformerEncoder                                              *)
(***************************************************************************)
\* nn.LayerNorm(embed_dim): weight and bias [embed_dim]; weight setting 0 is
\* the initial one (ones and zeros)
LayerNormInit(embed_dim, wseed, bseed, salt) ==
    [normalized_shape |-> <<embed_dim>>,
     weight |-> Seq1([c \in 1..embed_dim |->
                   IF wseed = 0 THEN R(1) ELSE RAdd(R(2), Param(wseed, salt, c))]),
     bias |-> Seq1([c \in 1..embed_dim |-> Param(bseed, salt + 1, c)])]

\* LayerNorm.forward over the last axis of a rank-3 tensor:
\* (x - mean) / sqrt(var + eps) * weight + bias, eps below the resolution
LayerNormForward(ln, x) ==
    LET E == x.shape[3]
        n == R(E)
        rows == Seq1([r \in 1..(x.shape[1] * x.shape[2]) |->
                  LET v == [c \in 1..E |-> x.data[(r - 1) * E + c]]
                      mean == RDiv(RSum(v), n)
                      cen == Seq1([c \in 1..E |-> RSub(v[c], mean)])
                      var == RDiv(RSum([c \in 1..E |-> RMul(cen[c], cen[c])]), n)
                      sd == RSqrt(var)
                  IN  Seq1([c \in 1..E |->
                         RAdd(RMul(IF sd = R(0) THEN R(0) ELSE RDiv(cen[c], sd),
                                   ln.weight[c]),
                              ln.bias[c])])])
    IN  Mk3(x.shape[1], x.shape[2], E,
            LAMBDA b, l, c : rows[b * x.shape[2] + l + 1][c + 1])

\* the normal distribution function at -3, -2, ..., 3, in hundredths
PhiTable == <<0, 2, 16, 50, 84, 98, 100>>

\* nn.GELU: x * Phi(x)
Gelu(a) == RMul(a, Interp(PhiTable, -3, a))

\* elementwise on a tensor
Map(t, F(_)) == [shape |-> t.shape, data |-> Seq1([n \in 1..Len(t.data) |-> F(t.data[n])])]

\* x + y for tensors of one shape
TAdd(x, y) ==
    [shape |-> x.shape, data |-> Seq1([n \in 1..Len(x.data) |-> RAdd(x.data[n], y.data[n])])]

TransformerEncoderLayerInit(embed_dim, num_heads, mlp_dim, wseed, bseed, salt) ==
    LET attn == MultiHeadSelfAttentionInit(embed_dim, num_heads, wseed, bseed, salt)
    IN  IF attn.error # "none"
        THEN [class |-> "TransformerEncoderLayer", error |-> attn.error]
        ELSE [class |-> "TransformerEncoderLayer", error |-> "none",
              norm1 |-> LayerNormInit(embed_dim, wseed, bseed, salt + 6),
              norm2 |-> LayerNormInit(embed_dim, wseed, bseed, salt + 8),
              attn |-> attn,
              mlp |-> [fc1 |-> LinearInit(embed_dim, mlp_dim, wseed, bseed, salt + 10),
                       fc2 |-> LinearInit(mlp_dim, embed_dim, wseed, bseed, salt + 12)]]

\* self.mlp: Linear, GELU, Dropout, Linear, Dropout
MlpForward(mlp, x) ==
    Dropout(LinearForward(mlp.fc2, Dropout(Map(LinearForward(mlp.fc1, x), Gelu))))

\* x = x + self.mlp(self.norm2(x))
MlpResidual(self, x) ==
    [error |-> "none",
     out |-> TAdd(x, MlpForward(self.mlp, LayerNormForward(self.norm2, x)))]

\* x = x + a, a the result of self.attn, and then the feed-forward half
AttnResidual(self, x, a) ==
    IF a.error # "none" THEN a ELSE MlpResidual(self, TAdd(x, a.out))

TransformerEncoderLayerForward(self, x, mask) ==
    IF Ndim(x) # 3 \/ x.shape[3] # self.norm1.normalized_shape[1]
    THEN [error |-> "AssertionError"]
    ELSE AttnResidual(self, x,
             MultiHeadSelfAttentionForward(self.attn, LayerNormForward(self.norm1, x), mask))

TransformerEncoderInit(num_layers, embed_dim, num_heads, mlp_dim, wseed, bseed) ==
    IF ~(num_layers > 0)
    THEN [class |-> "TransformerEncoder", error |-> "AssertionError"]
    ELSE LET layers == Seq1([i \in 1..num_layers |->
                          TransformerEncoderLayerInit(embed_dim, num_heads, mlp_dim,
                                                      wseed, bseed, i)])
         IN  IF layers[1].error # "none"
             THEN [class |-> "TransformerEncoder", error |-> layers[1].error]
             ELSE [class |-> "TransformerEncoder", error |-> "none",
                   layers |-> layers,
                   norm |-> LayerNormInit(embed_dim, wseed, bseed, 14)]

\* x = layer(x, mask) on the result of the layers before
LayerStep(layer, before, mask) ==
    IF before.error # "none" THEN before
    ELSE TransformerEncoderLayerForward(layer, before.out, mask)

\* for layer in self.layers: x = layer(x, mask)
RECURSIVE ThroughLayers(_, _, _, _)
ThroughLayers(layers, n, x, mask) ==
    IF n = 0 THEN [error |-> "none", out |-> x]
    ELSE LayerStep(layers[n], ThroughLayers(layers, n - 1, x, mask), mask)

\* x = self.norm(x) on the result y of a stack
FinalNorm(ln, y) ==
    IF y.error # "none" THEN y
    ELSE [error |-> "none", out |-> LayerNormForward(ln, y.out)]

TransformerEncoderForward(self, x, mask) ==
    IF Ndim(x) # 3 \/ x.shape[3] # self.layers[1].norm1.normalized_shape[1]
    THEN [error |-> "AssertionError"]
    ELSE FinalNorm(self.norm, ThroughLayers(self.layers, Len(self.layers), x, mask))

TemporalTransformerEncoderInit(embed_dim, num_heads, num_layers, mlp_dim, wseed, bseed) ==
    LET enc == TransformerEncoderInit(num_layers, embed_dim, num_heads, mlp_dim, wseed, bseed)
    IN  IF enc.error # "none"
        THEN [class |-> "TemporalTransformerEncoder", error |-> enc.error]
        ELSE [class |-> "TemporalTransformerEncoder", error |-> "none",
              transformer_encoder |-> enc,
              norm |-> LayerNormInit(embed_dim, wseed, bseed, 16)]

\* x.mean(dim=1) of a rank-3 tensor [B, L, E]
MeanDim1(x) ==
    [shape |-> <<x.shape[1], x.shape[3]>>,
     data  |-> Seq1([n \in 1..(x.shape[1] * x.shape[3]) |->
                  LET b == (n - 1) \div x.shape[3]
                      c == (n - 1) % x.shape[3]
                  IN  RDiv(RSum([l \in 1..x.shape[2] |-> At3(x, b, l - 1, c)]),
                           R(x.shape[2]))])]

\* the masked frames summed like the valid ones
MaskedMeanUnmasked(x, mask) ==
    [shape |-> <<x.shape[1], x.shape[3]>>,
     data  |-> Seq1([n \in 1..(x.shape[1] * x.shape[3]) |->
                  LET b == (n - 1) \div x.shape[3]
                      c == (n - 1) % x.shape[3]
                      lengths == RMax(RSum([l \in 1..x.shape[2] |-> R(MaskAt(mask, b, l - 1))]), R(1))
                  IN  RDiv(RSum([l \in 1..x.shape[2] |-> At3(x, b, l - 1, c)]), lengths)])]

\* x = x * mask.unsqueeze(-1); lengths = mask.sum(dim=1, keepdim=True).clamp(min=1);
\* x = x.sum(dim=1) / lengths
MaskedMean(x, mask) ==
    LET xm == Mk3(x.shape[1], x.shape[2], x.shape[3],
                  LAMBDA b, l, c : RMul(At3(x, b, l, c), R(MaskAt(mask, b, l))))
    IN  [shape |-> <<x.shape[1], x.shape[3]>>,
         data  |-> Seq1([n \in 1..(x.shape[1] * x.shape[3]) |->
                      LET b == (n - 1) \div x.shape[3]
                          c == (n - 1) % x.shape[3]
                          lengths == RMax(RSum([l \in 1..x.shape[2] |-> R(MaskAt(mask, b, l - 1))]),
                                          R(1))
                      IN  RDiv(RSum([l \in 1..x.shape[2] |-> At3(xm, b, l - 1, c)]), lengths)])]

\* the pooling over the frames of the result y of self.norm
TemporalPool(y, mask) ==
    IF y.error # "none" THEN y
    ELSE [error |-> "none", post |-> y.out,
          out |-> IF mask # None THEN MaskedMean(y.out, mask) ELSE MeanDim1(y.out)]

\* TemporalTransformerEncoder.forward; `post` is x after self.norm
TemporalTransformerEncoderForward(self, x, mask) ==
    IF Ndim(x) # 3 THEN [error |-> "AssertionError"]
    ELSE IF ~(mask = None \/ mask.shape = <<x.shape[1], x.shape[2]>>)
    THEN [error |-> "AssertionError"]
    ELSE TemporalPool(FinalNorm(self.norm,
                                TransformerEncoderForward(self.transformer_encoder, x, mask)),
                      mask)

(***************************************************************************)
(* VisionTransformer (pretrained backbone, LSTM or mean pooling)           *)
(***************************************************************************)
\* 1 / (1 + e^-t) and tanh(t) at t = -3, ..., 3, in hundredths
SigmoidTable == <<5, 12, 27, 50, 73, 88, 95>>

TanhTable == <<-100, -96, -76, 0, 76, 96, 100>>

Sigmoid(a) == Interp(SigmoidTable, -3, a)

Tanh(a) == Interp(TanhTable, -3, a)

\* the backbone with its head replaced by nn.Identity: one feature vector
\* per image, here a linear map of the image's pixels
VitInit(pixels, wseed, bseed) ==
    [pixels |-> pixels, proj |-> LinearInit(pixels, FeatureDim, wseed, bseed, 20)]

\* self.vit(x) on [N, c, h, w]: [N, feature_dim]; the backbone refuses
\* images of another size
VitForward(vit, x) ==
    IF x.shape[2] * x.shape[3] * x.shape[4] # vit.pixels
    THEN [error |-> "AssertionError"]
    ELSE [error |-> "none",
          out |-> LinearForward2(vit.proj, View(x, <<x.shape[1], vit.pixels>>))]

\* nn.LSTM(input_size, hidden_size, num_layers=1, batch_first=True,
\* bidirectional): weight_ih, bias_ih, weight_hh, bias_hh per direction
LstmInit(input_size, hidden_size, bidirectional, wseed, bseed) ==
    [input_size |-> input_size, hidden_size |-> hidden_size,
     bidirectional |-> bidirectional,
     ih |-> LinearInit(input_size, 4 * hidden_size, wseed, bseed, 22),
     hh |-> LinearInit(hidden_size, 4 * hidden_size, wseed, bseed, 24),
     ih_reverse |-> LinearInit(input_size, 4 * hidden_size, wseed, bseed, 26),
     hh_reverse |-> LinearInit(hidden_size, 4 * hidden_size, wseed, bseed, 28)]

\* y = W v + b for a vector v
Affine(lin, v) ==
    Seq1([o \in 1..lin.out_features |->
            RAdd(RSum([i \in 1..lin.in_features |->
                         RMul(v[i], lin.weight[(o - 1) * lin.in_features + i])]),
                 lin.bias[o])])

\* one LSTM step: the state <<h, c>> after input xt
LstmCell(ih, hh, H, xt, hc) ==
    LET gx == Affine(ih, xt)
        gh == Affine(hh, hc[1])
        g  == [n \in 1..(4 * H) |-> RAdd(gx[n], gh[n])]
        c  == Seq1([k \in 1..H |->
                  RAdd(RMul(Sigmoid(g[H + k]), hc[2][k]),
                       RMul(Sigmoid(g[k]), Tanh(g[2 * H + k])))])
        h  == Seq1([k \in 1..H |-> RMul(Sigmoid(g[3 * H + k]), Tanh(c[k]))])
    IN  <<h, c>>

Zeros(n) == Seq1([k \in 1..n |-> R(0)])

\* the states <<h, c>> after each of the frames 1..t of a clip, forwards
RECURSIVE LstmForwardStates(_, _, _)
LstmForwardStates(lstm, frames, t) ==
    IF t = 0 THEN <<>>
    ELSE LET before == LstmForwardStates(lstm, frames, t - 1)
             hc == IF t = 1 THEN <<Zeros(lstm.hidden_size), Zeros(lstm.hidden_size)>>
                   ELSE before[t - 1]
         IN  Append(before, LstmCell(lstm.ih, lstm.hh, lstm.hidden_size, frames[t], hc))

\* the states after the frames len, len - 1, ..., t of a clip, backwards:
\* entry n is the state at frame t + n - 1
RECURSIVE LstmBackwardStates(_, _, _, _)
LstmBackwardStates(lstm, frames, len, t) ==
    IF t > len THEN <<>>
    ELSE LET after == LstmBackwardStates(lstm, frames, len, t + 1)
             hc == IF t = len THEN <<Zeros(lstm.hidden_size), Zeros(lstm.hidden_size)>>
                   ELSE after[1]
         IN  <<LstmCell(lstm.ih_reverse, lstm.hh_reverse, lstm.hidden_size, frames[t], hc)>>
                 \o after

LstmOutputSize(lstm) == lstm.hidden_size * (IF lstm.bidirectional THEN 2 ELSE 1)

\* the LSTM output of one clip of a packed batch, unpacked to total_length
\* steps: the hidden state at each of the first len frames, zeros after them
LstmClip(lstm, frames, len, total_length) ==
    LET fwd == LstmForwardStates(lstm, frames, len)
        bwd == IF lstm.bidirectional THEN LstmBackwardStates(lstm, frames, len, 1) ELSE <<>>
    IN  Seq1([t \in 1..total_length |->
            IF t > len THEN Zeros(LstmOutputSize(lstm))
            ELSE IF lstm.bidirectional THEN fwd[t][1] \o bwd[t][1]
            ELSE fwd[t][1]])

\* the frame features of clip b (zero-based) of a rank-3 tensor [B, F, D]
ClipFrames(x, b) ==
    Seq1([t \in 1..x.shape[2] |-> Seq1([k \in 1..x.shape[3] |-> At3(x, b, t - 1, k - 1)])])

\* without a mask every clip taken to hold one frame
LengthsWithoutMaskOne(seq_mask, B, num_frames) ==
    [b \in 1..B |->
       IF seq_mask = None THEN 1
       ELSE LET row == [l \in 1..num_frames |-> MaskAt(seq_mask, b - 1, l - 1)]
                Sum[n \in 0..num_frames] == IF n = 0 THEN 0 ELSE Sum[n - 1] + row[n]
            IN  Sum[num_frames]]

\* seq_mask.sum(dim=1).long(), or num_frames for every clip without a mask
Lengths(seq_mask, B, num_frames) ==
    [b \in 1..B |->
       IF seq_mask = None THEN num_frames
       ELSE LET row == [l \in 1..num_frames |-> MaskAt(seq_mask, b - 1, l - 1)]
                Sum[n \in 0..num_frames] == IF n = 0 THEN 0 ELSE Sum[n - 1] + row[n]
            IN  Sum[num_frames]]

\* the orders lengths.sort(descending=True) may return as sorted_idx (one-based)
SortedIdx(lengths) ==
    LET B == Len(lengths)
    IN  {p \in [1..B -> 1..B] :
           /\ \A i, j \in 1..B : i # j => p[i] # p[j]
           /\ \A i \in 1..(B - 1) : lengths[p[i]] >= lengths[p[i + 1]]}

\* the batch left in length-sorted order
OriginalIdxSkipped(sorted_idx) == [b \in 1..Len(sorted_idx) |-> b]

\* _, original_idx = sorted_idx.sort()
OriginalIdx(sorted_idx) ==
    [b \in 1..Len(sorted_idx) |-> CHOOSE i \in 1..Len(sorted_idx) : sorted_idx[i] = b]

\* output = output[original_idx]
RestoreOrder(output_sorted, sorted_idx) ==
    LET original_idx == OriginalIdx(sorted_idx)
    IN  [b \in 1..Len(sorted_idx) |-> output_sorted[original_idx[b]]]

VisionTransformerInit(use_temporal_modeling, temporal_hidden_size, bidirectional, pixels, wseed, bseed) ==
    LET lstm == LstmInit(FeatureDim, temporal_hidden_size, bidirectional, wseed, bseed)
    IN  [class |-> "VisionTransformer", error |-> "none",
         vit |-> VitInit(pixels, wseed, bseed),
         use_temporal_model |-> use_temporal_modeling,
         temporal_model |-> IF use_temporal_modeling THEN lstm ELSE None,
         temporal_fc |-> IF use_temporal_modeling
                         THEN LinearInit(LstmOutputSize(lstm), NumClasses, wseed, bseed, 30)
                         ELSE None,
         classifier |-> IF use_temporal_modeling THEN None
                        ELSE LinearInit(FeatureDim, NumClasses, wseed, bseed, 32)]

\* the recurrent path (lines 605-651) on the frame features x [B, F, D];
\* sorted_idx is the order the sort returned
RecurrentPath(self, x, seq_mask, sorted_idx) ==
    LET B == x.shape[1]
        num_frames == x.shape[2]
        lstm == self.temporal_model
        lengths == Lengths(seq_mask, B, num_frames)
        lengths_sorted == [i \in 1..B |-> lengths[sorted_idx[i]]]
        \* x_sorted = x[sorted_idx]
        x_sorted == [i \in 1..B |-> ClipFrames(x, sorted_idx[i] - 1)]
    IN  \* pack_padded_sequence refuses a length below 1
        IF \E i \in 1..B : lengths_sorted[i] <= 0
        THEN [error |-> "RuntimeError"]
        ELSE LET output_sorted ==
                     Seq1([i \in 1..B |->
                             LstmClip(lstm, x_sorted[i], lengths_sorted[i], num_frames)])
                 output == RestoreOrder(output_sorted, sorted_idx)
                 \* lengths.clamp(min=1) - 1
                 last_indices == [b \in 1..B |->
                                    IF seq_mask # None
                                    THEN (IF lengths[b] < 1 THEN 1 ELSE lengths[b]) - 1
                                    ELSE num_frames - 1]
                 last_outputs ==
                     [shape |-> <<B, LstmOutputSize(lstm)>>,
                      data  |-> Seq1([n \in 1..(B * LstmOutputSize(lstm)) |->
                                   LET b == ((n - 1) \div LstmOutputSize(lstm)) + 1
                                       k == ((n - 1) % LstmOutputSize(lstm)) + 1
                                   IN  output[b][last_indices[b] + 1][k]])]
             IN  [error |-> "none",
                  last_indices |-> last_indices,
                  last_outputs |-> last_outputs,
                  logits |-> LinearForward2(self.temporal_fc, Dropout(last_outputs))]

\* the valid count left unclamped
PooledFeaturesUnclamped(x, seq_mask) ==
    IF seq_mask = None THEN MeanDim1(x)
    ELSE [shape |-> <<x.shape[1], x.shape[3]>>,
          data  |-> Seq1([n \in 1..(x.shape[1] * x.shape[3]) |->
                       LET b == (n - 1) \div x.shape[3]
                           c == (n - 1) % x.shape[3]
                       IN  RDiv(RSum([l \in 1..x.shape[2] |->
                                        RMul(At3(x, b, l - 1, c),
                                             R(MaskAt(seq_mask, b, l - 1)))]),
                                RSum([l \in 1..x.shape[2] |->
                                        R(MaskAt(seq_mask, b, l - 1))]))])]

\* the pooling of the frame features x [B, F, D] (lines 654-668): with a
\* mask, x * mask summed over the frames and divided by the valid count
\* clamped to at least 1; without, the mean over the frames
PooledFeatures(x, seq_mask) ==
    IF seq_mask # None
    THEN LET B == x.shape[1]
             D == x.shape[3]
             \* mask_expanded = seq_mask.unsqueeze(-1).float()
             xm == Mk3(B, x.shape[2], D,
                       LAMBDA b, l, c : RMul(At3(x, b, l, c), R(MaskAt(seq_mask, b, l))))
         IN  [shape |-> <<B, D>>,
              data  |-> Seq1([n \in 1..(B * D) |->
                           LET b == (n - 1) \div D
                               c == (n - 1) % D
                               sum_features ==
                                   RSum([l \in 1..x.shape[2] |-> At3(xm, b, l - 1, c)])
                               counts ==
                                   RMax(RSum([l \in 1..x.shape[2] |->
                                                R(MaskAt(seq_mask, b, l - 1))]), R(1))
                           IN  RDiv(sum_features, counts)])]
    ELSE MeanDim1(x)

\* x = self.classifier(x) on the pooled features
ClassifyPooled(self, pooled) ==
    [error |-> "none", pooled |-> pooled,
     logits |-> LinearForward2(self.classifier, Dropout(pooled))]

\* the pooling path (lines 652-671) on the frame features x [B, F, D]
PoolingPath(self, x, seq_mask) == ClassifyPooled(self, PooledFeatures(x, seq_mask))

\* the aggregation of the frame features x [B, F, D] of a clip batch
Aggregate(self, x, seq_mask, sorted_idx) ==
    (IF self.use_temporal_model
     THEN RecurrentPath(self, x, seq_mask, sorted_idx)
     ELSE PoolingPath(self, x, seq_mask)) @@ [features |-> x]

\* x.view(batch_size, num_frames, feature_dim) on the result f of the
\* backbone, and the aggregation
AfterVit(self, f, batch_size, num_frames, seq_mask, sorted_idx) ==
    IF f.error # "none" THEN f
    ELSE Aggregate(self, View(f.out, <<batch_size, num_frames, f.out.shape[2]>>),
                   seq_mask, sorted_idx)

\* the rank assertion stripped: the unpacking of x.size() raises instead
VisionTransformerForwardNoAssert(self, x, img_mask, seq_mask, sorted_idx) ==
    IF Ndim(x) # 5 THEN [error |-> "ValueError"]
    ELSE AfterVit(self,
                  VitForward(self.vit,
                             View(x, <<x.shape[1] * x.shape[2], x.shape[3], x.shape[4], x.shape[5]>>)),
                  x.shape[1], x.shape[2], seq_mask, sorted_idx)

\* VisionTransformer.forward; img_mask is accepted and not read
VisionTransformerForward(self, x, img_mask, seq_mask, sorted_idx) ==
    IF Ndim(x) # 5 THEN [error |-> "AssertionError"]
    ELSE AfterVit(self,
                  VitForward(self.vit,
                             View(x, <<x.shape[1] * x.shape[2], x.shape[3], x.shape[4], x.shape[5]>>)),
                  x.shape[1], x.shape[2], seq_mask, sorted_idx)

(***************************************************************************)
(* VisionTransformerWithTemporal                                           *)
(***************************************************************************)
VisionTransformerWithTemporalInit(img_size, patch_size, in_channels, embed_dim, depth, num_heads, mlp_dim, use_cls_token, temporal_num_layers, temporal_num_heads, temporal_mlp_dim, wseed, bseed) ==
    LET patch_embed == PatchEmbeddingInit(img_size, patch_size, in_channels, embed_dim,
                                          wseed, bseed)
        pos_encoder == PositionalEncodingInit(embed_dim,
                           patch_embed.num_patches + (IF use_cls_token THEN 1 ELSE 0))
        transformer_encoder == TransformerEncoderInit(depth, embed_dim, num_heads, mlp_dim,
                                                      wseed, bseed)
        temporal_encoder == TemporalTransformerEncoderInit(embed_dim, temporal_num_heads,
                                temporal_num_layers, temporal_mlp_dim, wseed, bseed)
        Failed(e) == [class |-> "VisionTransformerWithTemporal", error |-> e]
    IN  IF patch_embed.error # "none" THEN Failed(patch_embed.error)
        ELSE IF pos_encoder.error # "none" THEN Failed(pos_encoder.error)
        ELSE IF transformer_encoder.error # "none" THEN Failed(transformer_encoder.error)
        ELSE IF temporal_encoder.error # "none" THEN Failed(temporal_encoder.error)
        ELSE [class |-> "VisionTransformerWithTemporal", error |-> "none",
              patch_embed |-> patch_embed,
              use_cls_token |-> use_cls_token,
              cls_token |-> IF use_cls_token
                            THEN Seq1([c \in 1..embed_dim |-> Param(wseed, 34, c)])
                            ELSE None,
              pos_encoder |-> pos_encoder,
              num_tokens |-> IF use_cls_token THEN 1 ELSE 0,
              transformer_encoder |-> transformer_encoder,
              norm |-> LayerNormInit(embed_dim, wseed, bseed, 36),
              temporal_encoder |-> temporal_encoder,
              \* nn.init.zeros_(self.head.bias)
              head |-> LinearInit(embed_dim, NumClasses, wseed, 0, 38)]

\* the class token never prepended
WithClsTokenSkipped(self, x) == x

\* torch.cat((cls_tokens, x), dim=1) when the class token is in use
WithClsToken(self, x) ==
    IF self.use_cls_token
    THEN Mk3(x.shape[1], x.shape[2] + 1, x.shape[3],
             LAMBDA b, l, c : IF l = 0 THEN self.cls_token[c + 1] ELSE At3(x, b, l - 1, c))
    ELSE x

\* the spatial encoder is called without img_mask
SpatialMaskApplied(img_mask, batch_size, seq_len) ==
    IF img_mask = None THEN None ELSE View(img_mask, <<batch_size * seq_len, 1>>)

\* the mask self.transformer_encoder(x) receives: none
SpatialMask(img_mask, batch_size, seq_len) == None

\* x[:, 0] or x.mean(dim=1): [N, E]
ExtractFeatures(self, x) ==
    IF self.use_cls_token
    THEN [shape |-> <<x.shape[1], x.shape[3]>>,
          data  |-> Seq1([n \in 1..(x.shape[1] * x.shape[3]) |->
                       At3(x, (n - 1) \div x.shape[3], 0, (n - 1) % x.shape[3])])]
    ELSE MeanDim1(x)

\* logits = self.head(x) on the result y of the temporal encoder
Classify(self, y) ==
    IF y.error # "none" THEN [error |-> y.error]
    ELSE [error |-> "none", logits |-> LinearForward2(self.head, y.out)]

\* the NaN check on the result y of self.norm, the feature extraction, the
\* temporal encoder and the head
AfterSpatial(self, y, batch_size, seq_len, seq_mask) ==
    IF y.error # "none" THEN y
    ELSE IF \E n \in 1..Len(y.out.data) : IsNaN(y.out.data[n])
    THEN [error |-> "ValueError"]
    ELSE Classify(self,
             TemporalTransformerEncoderForward(self.temporal_encoder,
                 View(ExtractFeatures(self, y.out), <<batch_size, seq_len, y.out.shape[3]>>),
                 seq_mask))

\* dropout, the spatial encoder and self.norm on the result y of
\* self.pos_encoder
AfterPosEncoder(self, y, batch_size, seq_len, img_mask, seq_mask) ==
    IF y.error # "none" THEN [error |-> y.error]
    ELSE AfterSpatial(self,
             FinalNorm(self.norm,
                 TransformerEncoderForward(self.transformer_encoder, Dropout(y.out),
                                           SpatialMask(img_mask, batch_size, seq_len))),
             batch_size, seq_len, seq_mask)

\* the class token on the result y of self.patch_embed
\* x = self.pos_encoder(x) and what follows; `tokens` is the sequence handed
\* to the positional encoding
AfterClsToken(self, tokens, batch_size, seq_len, img_mask, seq_mask) ==
    AfterPosEncoder(self, PositionalEncodingForward(self.pos_encoder, tokens),
                    batch_size, seq_len, img_mask, seq_mask) @@ [tokens |-> tokens]

AfterPatchEmbed(self, y, batch_size, seq_len, img_mask, seq_mask) ==
    IF y.error # "none" THEN y
    ELSE AfterClsToken(self, WithClsToken(self, y.out),
                       batch_size, seq_len, img_mask, seq_mask)

VisionTransformerWithTemporalForward(self, x, img_mask, seq_mask) ==
    \* batch_size, seq_len, in_channels, img_size, _ = x.shape
    IF Ndim(x) # 5 THEN [error |-> "ValueError"]
    ELSE IF x.shape[4] # self.patch_embed.img_size THEN [error |-> "AssertionError"]
    \* x.view(batch_size * seq_len, in_channels, img_size, img_size)
    ELSE IF x.shape[5] # x.shape[4] THEN [error |-> "RuntimeError"]
    ELSE AfterPatchEmbed(self,
             PatchEmbeddingForward(self.patch_embed,
                 View(x, <<x.shape[1] * x.shape[2], x.shape[3], x.shape[4], x.shape[4]>>)),
             x.shape[1], x.shape[2], img_mask, seq_mask)

(***************************************************************************)
(* DriverDrowsinessDataset (scripts/utils/data.py)                         *)
(*                                                                         *)
(* A file is [name, image, ok, size]: its name (names sort as numbers),    *)
(* whether its extension is an image extension, whether it decodes, and    *)
(* the side of its picture.  A sequence directory is the tuple of its      *)
(* files in the order os.listdir returns them; a label directory holds a    *)
(* tuple of sequence directories, or is Missing.  The global random generator *)
(* is a state in 0..RngStates-1.                                           *)
(***************************************************************************)
Missing == [exists |-> FALSE, dirs |-> <<>>]

\* a label directory holding the sequence directories dirs
LabelDir(dirs) == [exists |-> TRUE, dirs |-> dirs]

\* the files of a listing whose extension is an image extension (lines 32-35)
RECURSIVE ImageFiles(_)
ImageFiles(files) ==
    IF files = <<>> THEN <<>>
    ELSE (IF Head(files).image THEN <<Head(files)>> ELSE <<>>) \o ImageFiles(Tail(files))

\* the tuple `files` without the file f
RECURSIVE Without(_, _)
Without(files, f) ==
    IF files = <<>> THEN <<>>
    ELSE (IF Head(files) # f THEN <<Head(files)>> ELSE <<>>) \o Without(Tail(files), f)

\* sorted(...) by name
RECURSIVE SortedByName(_)
SortedByName(files) ==
    IF files = <<>> THEN <<>>
    ELSE LET least == CHOOSE f \in {files[i] : i \in 1..Len(files)} :
                          \A i \in 1..Len(files) : f.name <= files[i].name
         IN  <<least>> \o SortedByName(Without(files, least))

\* images[i:i + seq_len] (i zero-based) with its slots joined to the
\* directory, short of None padding
WindowUnpadded(dir, images, i, seq_len) ==
    [k \in 1..(IF Len(images) - i < seq_len THEN Len(images) - i ELSE seq_len) |->
        [dir |-> dir, file |-> images[i + k]]]

\* the same, padded with None to seq_len slots (lines 39-45)
Window(dir, images, i, seq_len) ==
    [k \in 1..seq_len |->
        IF i + k <= Len(images) THEN [dir |-> dir, file |-> images[i + k]] ELSE None]

\* for i in range(0, len(images), stride), from the start offset i on
RECURSIVE WindowsFrom(_, _, _, _, _)
WindowsFrom(dir, images, i, stride, seq_len) ==
    IF i >= Len(images) THEN <<>>
    ELSE <<Window(dir, images, i, seq_len)>>
            \o WindowsFrom(dir, images, i + stride, stride, seq_len)

\* the windows of one sequence directory (lines 31-46)
SequenceWindows(dir, listing, seq_len) ==
    WindowsFrom(dir, SortedByName(ImageFiles(listing)), 0,
                seq_len \div 2, seq_len)

\* the windows of the sequence directories k, k + 1, ... of a label directory
RECURSIVE LabelWindows(_, _, _, _)
LabelWindows(label, dirs, k, seq_len) ==
    IF k > Len(dirs) THEN <<>>
    ELSE SequenceWindows(<<label, k>>, dirs[k], seq_len)
            \o LabelWindows(label, dirs, k + 1, seq_len)

\* the windows of a label directory, none when it does not exist (line 26)
WindowsOf(tree, label, seq_len) ==
    IF ~tree[label].exists THEN <<>> ELSE LabelWindows(label, tree[label].dirs, 1, seq_len)

DriverDrowsinessDatasetInit(tree, split, transform, seq_len, default_img_size) ==
    IF split \notin {"train", "val", "test"}
    THEN [class |-> "DriverDrowsinessDataset", error |-> "ValueError"]
    \* range(0, len(images), 0) raises for every sequence directory met
    ELSE IF seq_len \div 2 = 0
            /\ \E label \in {"pos", "neg"} : tree[label].exists /\ tree[label].dirs # <<>>
    THEN [class |-> "DriverDrowsinessDataset", error |-> "ValueError"]
    ELSE [class |-> "DriverDrowsinessDataset", error |-> "none",
          split |-> split, transform |-> transform, seq_len |-> seq_len,
          default_size |-> default_img_size,
          sequences |-> WindowsOf(tree, "pos", seq_len) \o WindowsOf(tree, "neg", seq_len),
          labels |-> [w \in 1..Len(WindowsOf(tree, "pos", seq_len)) |-> 1]
                       \o [w \in 1..Len(WindowsOf(tree, "neg", seq_len)) |-> 0]]

\* torch.manual_seed(idx): the generator state the seed idx stands for
ManualSeed(idx) == idx % RngStates

\* the generator state after one random draw
NextRng(rng) == (rng + 1) % RngStates

\* the augmentation a random transform draws in generator state rng
Draw(rng) == rng % 2

\* the picture of one slot and its mask bit (lines 62-76): the decoded file,
\* or a black picture of the default size
LoadSlot(self, slot) ==
    IF slot # None /\ slot.file.ok
    THEN [image |-> [real |-> TRUE, black |-> FALSE, size |-> slot.file.size], mask |-> 1]
    ELSE [image |-> [real |-> FALSE, black |-> TRUE, size |-> self.default_size], mask |-> 0]

\* transform(image) in generator state rng; `from` is the state it drew in
ApplyTransform(transform, default_size, image, rng) ==
    [real |-> image.real, black |-> image.black,
     size |-> IF transform.resize THEN default_size ELSE image.size,
     aug |-> IF transform.random THEN Draw(rng) ELSE 0,
     from |-> rng]

\* transforms.ToTensor()
ToTensor(image) ==
    [real |-> image.real, black |-> image.black, size |-> image.size, aug |-> 0, from |-> 0]

\* the train branch (lines 80-88): random_state is the generator state saved
\* before manual_seed(idx); set_rng_state(random_state) puts it back before
\* every transform, so the seeded state is left only by an empty loop
TransformTrain(self, images, idx, rng) ==
    LET random_state == rng
        seeded == ManualSeed(idx)
    IN  [images |-> [i \in 1..Len(images) |->
                       ApplyTransform(self.transform, self.default_size, images[i],
                                      random_state)],
         rng |-> IF Len(images) = 0 THEN seeded
                 ELSE IF self.transform.random THEN NextRng(random_state)
                 ELSE random_state]

\* the generator state before the transform of image i (one-based) when the
\* transforms run one after the other
RECURSIVE RngBefore(_, _, _)
RngBefore(transform, rng, i) ==
    IF i = 1 \/ ~transform.random THEN rng ELSE NextRng(RngBefore(transform, rng, i - 1))

\* images = [self.transform(image) for image in images] (line 90)
TransformEval(self, images, rng) ==
    [images |-> [i \in 1..Len(images) |->
                   ApplyTransform(self.transform, self.default_size, images[i],
                                  RngBefore(self.transform, rng, i))],
     rng |-> RngBefore(self.transform, rng, Len(images) + 1)]

\* lines 78-93
Transformed(self, images, idx, rng) ==
    IF self.transform # None /\ self.split = "train"
    THEN TransformTrain(self, images, idx, rng)
    ELSE IF self.transform # None THEN TransformEval(self, images, rng)
    ELSE [images |-> [i \in 1..Len(images) |-> ToTensor(images[i])], rng |-> rng]

\* torch.stack and the return (lines 95-98) on the transformed pictures t
Stacked(t, mask, label) ==
    IF \E i, j \in 1..Len(t.images) : t.images[i].size # t.images[j].size
    THEN [error |-> "RuntimeError", rng |-> t.rng]
    ELSE [error |-> "none", rng |-> t.rng, images |-> t.images,
          mask |-> [i \in 1..Len(mask) |-> mask[i] = 1], label |-> label]

\* lines 78-98 on the loaded slots, each a picture and its mask bit
GetItemLoaded(self, loaded, idx, rng) ==
    Stacked(Transformed(self, [i \in 1..Len(loaded) |-> loaded[i].image], idx, rng),
            [i \in 1..Len(loaded) |-> loaded[i].mask],
            self.labels[idx + 1])

\* DriverDrowsinessDataset.__getitem__(idx), idx zero-based, with the global
\* generator in state rng; `rng` of the result is the state it leaves
GetItemOf(self, idx, rng) ==
    IF idx >= Len(self.sequences) THEN [error |-> "IndexError", rng |-> rng]
    ELSE GetItemLoaded(self,
                       [i \in 1..Len(self.sequences[idx + 1]) |->
                           LoadSlot(self, self.sequences[idx + 1][i])],
                       idx, rng)

(***************************************************************************)
(* Inputs and calls.                                                       *)
(***************************************************************************)
Sizes == 1..MaxImg

Channels == 1..MaxChan

EmbedSmall == 1..2

Patterns == 0..1

\* image batches of rank 3, 4 and 5
ImageShapes ==
    {<<b, c, h, w>> : b \in 1..MaxBatch, c \in Channels, h \in Sizes, w \in Sizes}
      \cup {<<c, h, h>> : c \in Channels, h \in Sizes}
      \cup {<<1, 1, c, h, h>> : c \in Channels, h \in Sizes}

InitNone ==
    /\ obj = None
    /\ call = None
    /\ prev = None

ConstructPatchEmbedding ==
    /\ obj = None
    /\ \E img_size \in Sizes, patch_size \in Sizes, in_channels \in Channels,
       embed_dim \in EmbedSmall, wseed \in Seeds, bseed \in Seeds :
        obj' = [args |-> [img_size |-> img_size, patch_size |-> patch_size,
                          in_channels |-> in_channels, embed_dim |-> embed_dim],
                self |-> PatchEmbeddingInit(img_size, patch_size, in_channels,
                                            embed_dim, wseed, bseed)]
    /\ UNCHANGED <<call, prev>>

CallPatchEmbedding ==
    /\ obj # None
    /\ obj.self.class = "PatchEmbedding"
    /\ obj.self.error = "none"
    /\ call = None
    /\ \E shape \in ImageShapes, pat \in Patterns :
        LET x == Fill(shape, pat)
        IN  call' = [x |-> x, result |-> PatchEmbeddingForward(obj.self, x)]
    /\ UNCHANGED <<obj, prev>>

PatchNext == ConstructPatchEmbedding \/ CallPatchEmbedding

SpecPatch == InitNone /\ [][PatchNext]_vars

\* embedding sequences [B, L, E]
SequenceShapes ==
    {<<b, l, e>> : b \in 1..MaxBatch, l \in 1..(MaxLen + 1), e \in 1..MaxEmbed}

SeqPatterns == 0..2

ConstructPositionalEncoding ==
    /\ obj = None
    /\ \E embed_dim \in 1..MaxEmbed, max_len \in 1..MaxLen :
        obj' = [args |-> [embed_dim |-> embed_dim, max_len |-> max_len],
                self |-> PositionalEncodingInit(embed_dim, max_len)]
    /\ UNCHANGED <<call, prev>>

CallPositionalEncoding ==
    /\ obj # None
    /\ obj.self.class = "PositionalEncoding"
    /\ obj.self.error = "none"
    /\ call = None
    /\ \E shape \in SequenceShapes, pat \in SeqPatterns :
        LET x == Fill(shape, pat)
            r == PositionalEncodingForward(obj.self, x)
        IN  /\ call' = [x |-> x, result |-> r]
            /\ obj' = [obj EXCEPT !.self = r.self]
    /\ UNCHANGED prev

PosNext == ConstructPositionalEncoding \/ CallPositionalEncoding

SpecPos == InitNone /\ [][PosNext]_vars

\* 0/1 masks [B, L]: any first row, the other rows all ones or all zeros
Masks(B, L) ==
    {[shape |-> <<B, L>>,
      data |-> Seq1([n \in 1..(B * L) |->
                  IF n <= L THEN first[n] ELSE rest[(n - 1) \div L]])] :
        first \in [1..L -> {0, 1}], rest \in [1..(B - 1) -> {0, 1}]}

ConstructMultiHeadSelfAttention ==
    /\ obj = None
    /\ \E embed_dim \in 1..MaxEmbed, num_heads \in 1..MaxHeads,
          wseed \in Seeds, bseed \in Seeds :
        obj' = [args |-> [embed_dim |-> embed_dim, num_heads |-> num_heads],
                self |-> MultiHeadSelfAttentionInit(embed_dim, num_heads, wseed, bseed, 0)]
    /\ UNCHANGED <<call, prev>>

CallMultiHeadSelfAttention ==
    /\ obj # None
    /\ obj.self.class = "MultiHeadSelfAttention"
    /\ obj.self.error = "none"
    /\ call = None
    /\ \E B \in 1..MaxBatch, L \in 1..MaxTok, E \in {obj.args.embed_dim, 1},
          pat \in 1..2 :
        \E mask \in Masks(B, L) \cup {None} :
            LET x == Fill(<<B, L, E>>, pat)
            IN  /\ E # obj.args.embed_dim => (pat = 1 /\ mask = None)
                /\ call' = [x |-> x, mask |-> mask,
                            result |-> MultiHeadSelfAttentionForward(obj.self, x, mask)]
    /\ UNCHANGED <<obj, prev>>

AttnNext == ConstructMultiHeadSelfAttention \/ CallMultiHeadSelfAttention

SpecAttn == InitNone /\ [][AttnNext]_vars

\* embedding widths of the temporal encoder
\* 0/1 masks [B, F]: any row for one clip, the other clips all valid
ClipMasks(B, F) ==
    {[shape |-> <<B, F>>,
      data |-> Seq1([n \in 1..(B * F) |->
                  IF (n - 1) \div F = at - 1 THEN row[((n - 1) % F) + 1] ELSE 1])] :
        at \in 1..B, row \in [1..F -> {0, 1}]}

TemporalEmbeds == {2, 3}

ConstructTemporalTransformerEncoder ==
    /\ obj = None
    /\ \E embed_dim \in TemporalEmbeds, num_heads \in 1..MaxHeads,
          num_layers \in {0, 1, MaxLayers}, wseed \in {1, MaxSeed}, bseed \in {1} :
        obj' = [args |-> [embed_dim |-> embed_dim, num_heads |-> num_heads,
                          num_layers |-> num_layers],
                self |-> TemporalTransformerEncoderInit(embed_dim, num_heads, num_layers,
                                                        2, wseed, bseed)]
    /\ UNCHANGED <<call, prev>>

CallTemporalTransformerEncoder ==
    /\ obj # None
    /\ obj.self.class = "TemporalTransformerEncoder"
    /\ obj.self.error = "none"
    /\ call = None
    /\ \E B \in 1..MaxBatch, L \in 1..MaxFrames, E \in {obj.args.embed_dim, 1},
          pat \in 1..2 :
        \E mask \in ClipMasks(B, L) \cup ClipMasks(1, 1) \cup {None} :
            LET x == Fill(<<B, L, E>>, pat)
            IN  /\ (E # obj.args.embed_dim \/ (mask # None /\ mask.shape # <<B, L>>))
                      => (pat = 1 /\ B = MaxBatch)
                /\ B > 1 => pat = 1
                /\ call' = [x |-> x, mask |-> mask,
                            result |-> TemporalTransformerEncoderForward(obj.self, x, mask)]
    /\ UNCHANGED <<obj, prev>>

TemporalNext == ConstructTemporalTransformerEncoder \/ CallTemporalTransformerEncoder

SpecTemporal == InitNone /\ [][TemporalNext]_vars

\* clip batches [B, F, 1, 1, 1]
ClipShapes == {<<b, f, 1, 1, 1>> : b \in 1..MaxBatch, f \in 1..MaxFrames}

\* inputs that are not clip batches: an image batch and a batch of clip lists
OtherRankShapes == {<<1, 1, 1, 1>>, <<1, 1, 1, 1, 1, 1>>}

\* a clip batch whose clips differ from each other and from frame to frame
ClipFill(shape) ==
    [shape |-> shape,
     data  |-> Seq1([n \in 1..Numel(shape) |->
                  R((n + ((n - 1) \div (Numel(shape) \div shape[1]))) % 3)])]

\* image-level masks for a clip batch
ImgMasks(B, F) ==
    {None, [shape |-> <<B, F>>, data |-> Seq1([n \in 1..(B * F) |-> n % 2])]}

ConstructVisionTransformer ==
    /\ obj = None
    /\ \E use_temporal_modeling \in BOOLEAN, temporal_hidden_size \in {1, MaxHidden},
          bidirectional \in BOOLEAN, wseed \in {1, MaxSeed}, bseed \in {1} :
        /\ ~use_temporal_modeling => (temporal_hidden_size = 1 /\ ~bidirectional)
        /\ obj' = [args |-> [use_temporal_modeling |-> use_temporal_modeling,
                             temporal_hidden_size |-> temporal_hidden_size,
                             bidirectional |-> bidirectional],
                   self |-> VisionTransformerInit(use_temporal_modeling, temporal_hidden_size,
                                                  bidirectional, 1, wseed, bseed)]
    /\ UNCHANGED <<call, prev>>

\* a forward call; the sort may return any order that is descending in length
VisionTransformerCall(x, img_mask, seq_mask) ==
    \E sorted_idx \in SortedIdx(Lengths(seq_mask, x.shape[1], x.shape[2])) :
        call' = [x |-> x, img_mask |-> img_mask, seq_mask |-> seq_mask,
                 result |-> VisionTransformerForward(obj.self, x, img_mask, seq_mask, sorted_idx)]

CallVisionTransformer ==
    /\ obj # None
    /\ obj.self.class = "VisionTransformer"
    /\ call = None
    /\ \E shape \in ClipShapes \cup OtherRankShapes :
        \E seq_mask \in ClipMasks(shape[1], shape[2]) \cup {None} :
            VisionTransformerCall(ClipFill(shape), None, seq_mask)
    /\ UNCHANGED <<obj, prev>>

\* the clip batch x with the pixels of the frames in S (one-based) changed
Perturb(x, S) ==
    [shape |-> x.shape,
     data  |-> Seq1([n \in 1..Len(x.data) |->
                  IF (((n - 1) \div (Len(x.data) \div (x.shape[1] * x.shape[2]))) % x.shape[2]) + 1 \in S
                  THEN RAdd(x.data[n], R(1))
                  ELSE x.data[n]])]

\* a second call on the same model with the same sequence mask, another
\* image-level mask, and at most one frame changed
RecallVisionTransformer ==
    /\ obj # None
    /\ obj.self.class = "VisionTransformer"
    /\ call # None
    /\ prev = None
    /\ \E S \in {{}} \cup {{l} : l \in 1..call.x.shape[2]},
          img_mask \in ImgMasks(call.x.shape[1], call.x.shape[2]) \ {call.img_mask} :
        VisionTransformerCall(Perturb(call.x, S), img_mask, call.seq_mask)
    /\ prev' = call
    /\ UNCHANGED obj

VTNext == ConstructVisionTransformer \/ CallVisionTransformer \/ RecallVisionTransformer

SpecVT == InitNone /\ [][VTNext]_vars

\* clip batches for a model of the given image size and channels: of the
\* shape it expects, and one-clip one-frame batches with one axis off
VideoShapes(in_channels, img_size) ==
    {<<b, f, in_channels, img_size, img_size>> : b \in 1..MaxBatch, f \in 1..MaxTok}
      \cup {<<1, 1, in_channels + 1, img_size, img_size>>,
            <<1, 1, in_channels, img_size + 1, img_size>>,
            <<1, 1, in_channels, img_size + 1, img_size + 1>>,
            <<1, 1, in_channels, img_size, img_size + 1>>}
      \cup OtherRankShapes

ConstructVisionTransformerWithTemporal ==
    /\ obj = None
    /\ \E img_size \in 1..2, patch_size \in 1..2, embed_dim \in 2..3, depth \in 0..1,
          num_heads \in 1..(MaxHeads + 1), temporal_num_layers \in 0..1,
          temporal_num_heads \in 1..(MaxHeads + 1),
          use_cls_token \in BOOLEAN, wseed \in {1, MaxSeed} :
        /\ (img_size # patch_size \/ embed_dim # 2 \/ depth # 1 \/ num_heads # 1
              \/ temporal_num_layers # 1 \/ temporal_num_heads # 1)
              => (use_cls_token /\ wseed = 1)
        /\ obj' = [args |-> [img_size |-> img_size, patch_size |-> patch_size,
                             in_channels |-> 1, embed_dim |-> embed_dim, depth |-> depth,
                             num_heads |-> num_heads,
                             temporal_num_layers |-> temporal_num_layers,
                             temporal_num_heads |-> temporal_num_heads,
                             use_cls_token |-> use_cls_token],
                   self |-> VisionTransformerWithTemporalInit(img_size, patch_size, 1,
                                embed_dim, depth, num_heads, 2, use_cls_token,
                                temporal_num_layers, temporal_num_heads, 2, wseed, 1)]
    /\ UNCHANGED <<call, prev>>

VisionTransformerWithTemporalCall(x, img_mask, seq_mask) ==
    call' = [x |-> x, img_mask |-> img_mask, seq_mask |-> seq_mask,
             result |-> VisionTransformerWithTemporalForward(obj.self, x, img_mask, seq_mask)]

CallVisionTransformerWithTemporal ==
    /\ obj # None
    /\ obj.self.class = "VisionTransformerWithTemporal"
    /\ obj.self.error = "none"
    /\ call = None
    /\ \E shape \in VideoShapes(obj.args.in_channels, obj.args.img_size) :
        \E seq_mask \in ClipMasks(shape[1], shape[2]) \cup {None} :
            VisionTransformerWithTemporalCall(ClipFill(shape), None, seq_mask)
    /\ UNCHANGED <<obj, prev>>

\* a second call on the same model with the same clips and sequence mask and
\* another image-level mask
RecallVisionTransformerWithTemporal ==
    /\ obj # None
    /\ obj.self.class = "VisionTransformerWithTemporal"
    /\ call # None
    /\ prev = None
    /\ \E img_mask \in ImgMasks(call.x.shape[1], call.x.shape[2]) \ {call.img_mask} :
        VisionTransformerWithTemporalCall(call.x, img_mask, call.seq_mask)
    /\ prev' = call
    /\ UNCHANGED obj

VTWTNext ==
    \/ ConstructVisionTransformerWithTemporal
    \/ CallVisionTransformerWithTemporal
    \/ RecallVisionTransformerWithTemporal

SpecVTWT == InitNone /\ [][VTWTNext]_vars

\* both video models
SpecModels == InitNone /\ [][VTNext \/ VTWTNext]_vars

\* frame features [B, F, D]: a pattern of finite values, or one with an
\* infinite and a not-a-number entry in the first frame
FeatureTensors ==
    {Fill(<<b, f, d>>, pat) : b \in 1..MaxBatch, f \in 1..MaxFrames, d \in 1..2, pat \in 0..2}
      \cup {[shape |-> <<1, f, 2>>,
             data |-> Seq1([n \in 1..(2 * f) |->
                         IF n = 1 THEN NegInf ELSE IF n = 2 THEN NaN ELSE R(n)])] :
               f \in 1..MaxFrames}

\* a feature tensor is drawn
DrawFeatures ==
    /\ obj = None
    /\ \E x \in FeatureTensors : obj' = [self |-> [class |-> "Pooling"], x |-> x]
    /\ UNCHANGED <<call, prev>>

\* both pooling steps are applied to the features, under one mask
PoolBothWays ==
    /\ obj # None
    /\ obj.self.class = "Pooling"
    /\ call = None
    /\ \E mask \in ClipMasks(obj.x.shape[1], obj.x.shape[2]) \cup {None} :
        call' = [x |-> obj.x, mask |-> mask,
                 temporal |-> TemporalPool([error |-> "none", out |-> obj.x], mask).out,
                 pooled |-> PooledFeatures(obj.x, mask)]
    /\ UNCHANGED <<obj, prev>>

PoolNext == DrawFeatures \/ PoolBothWays

SpecPool == InitNone /\ [][PoolNext]_vars

\* the mask [B, F] that marks every frame valid
OnesMask(B, F) == [shape |-> <<B, F>>, data |-> Seq1([n \in 1..(B * F) |-> 1])]

\* a call of the temporal encoder without a mask
CallTemporalWithoutMask ==
    /\ obj # None
    /\ obj.self.class = "TemporalTransformerEncoder"
    /\ obj.self.error = "none"
    /\ call = None
    /\ \E B \in 1..MaxBatch, L \in 1..MaxFrames, pat \in 1..2 :
        LET x == Fill(<<B, L, obj.args.embed_dim>>, pat)
        IN  call' = [x |-> x, seq_mask |-> None,
                     result |-> TemporalTransformerEncoderForward(obj.self, x, None)]
    /\ UNCHANGED <<obj, prev>>

\* the same input again, with the all-ones mask
RecallTemporalAllOnes ==
    /\ obj # None
    /\ obj.self.class = "TemporalTransformerEncoder"
    /\ call # None
    /\ prev = None
    /\ LET seq_mask == OnesMask(call.x.shape[1], call.x.shape[2])
       IN  call' = [x |-> call.x, seq_mask |-> seq_mask,
                    result |-> TemporalTransformerEncoderForward(obj.self, call.x, seq_mask)]
    /\ prev' = call
    /\ UNCHANGED obj

\* a call of VisionTransformer without a mask
CallVisionTransformerWithoutMask ==
    /\ obj # None
    /\ obj.self.class = "VisionTransformer"
    /\ call = None
    /\ \E shape \in ClipShapes : VisionTransformerCall(ClipFill(shape), None, None)
    /\ UNCHANGED <<obj, prev>>

\* the same clips again, with the all-ones mask
RecallVisionTransformerAllOnes ==
    /\ obj # None
    /\ obj.self.class = "VisionTransformer"
    /\ call # None
    /\ prev = None
    /\ VisionTransformerCall(call.x, None, OnesMask(call.x.shape[1], call.x.shape[2]))
    /\ prev' = call
    /\ UNCHANGED obj

NoMaskNext ==
    \/ ConstructTemporalTransformerEncoder
    \/ CallTemporalWithoutMask
    \/ RecallTemporalAllOnes
    \/ ConstructVisionTransformer
    \/ CallVisionTransformerWithoutMask
    \/ RecallVisionTransformerAllOnes

SpecNoMask == InitNone /\ [][NoMaskNext]_vars

(***************************************************************************)
(* Dataset directories, construction and reads.                            *)
(***************************************************************************)
\* image file k of a sequence directory; file `bad` does not decode
FrameFile(k, bad, size) == [name |-> k, image |-> TRUE, ok |-> k # bad, size |-> size]

\* a file that is not an image
NotesFile == [name |-> 0, image |-> FALSE, ok |-> FALSE, size |-> 0]

\* os.listdir of a sequence directory of n image files: in name order, or
\* in reverse order behind a file that is not an image
Listings(n, bad, size) ==
    { [k \in 1..n |-> FrameFile(k, bad, size)],
      <<NotesFile>> \o [k \in 1..n |-> FrameFile(n + 1 - k, bad, size)] }

\* the label directories: missing, empty, one sequence directory, or two
LabelDirs ==
    {Missing, LabelDir(<<>>)}
        \cup { LabelDir(<<l>>) : l \in UNION { Listings(n, bad, size) :
                                       n \in 0..MaxFiles, bad \in {0, 1, MaxFiles},
                                       size \in {DefaultSize, DefaultSize + 1} } }
        \cup { LabelDir(<<[k \in 1..2 |-> FrameFile(k, 0, DefaultSize)],
                          [k \in 1..MaxFiles |-> FrameFile(k, 0, DefaultSize)]>>) }

\* the transform argument: none, a resize with a random flip, a random flip
Transforms ==
    {None, [resize |-> TRUE, random |-> TRUE], [resize |-> FALSE, random |-> TRUE]}

ConstructDataset ==
    /\ obj = None
    /\ \E pos \in LabelDirs,
          neg \in {Missing, LabelDir(<<[k \in 1..1 |-> FrameFile(k, 0, DefaultSize)]>>)},
          split \in {"train", "val", "holdout"}, transform \in Transforms,
          seq_len \in 1..MaxSeqLen :
        /\ split = "holdout" => (transform = None /\ seq_len = 2)
        /\ obj' = [args |-> [tree |-> [pos |-> pos, neg |-> neg], split |-> split,
                             transform |-> transform, seq_len |-> seq_len],
                   self |-> DriverDrowsinessDatasetInit([pos |-> pos, neg |-> neg], split,
                                                        transform, seq_len, DefaultSize)]
    /\ UNCHANGED <<call, prev>>

\* dataset[idx] with the global generator in some state
GetItem ==
    /\ obj # None
    /\ obj.self.class = "DriverDrowsinessDataset"
    /\ obj.self.error = "none"
    /\ call = None
    /\ \E idx \in 0..Len(obj.self.sequences), rng \in {0, 1} :
        call' = [idx |-> idx, rng |-> rng, result |-> GetItemOf(obj.self, idx, rng)]
    /\ UNCHANGED <<obj, prev>>

\* a second read, with the generator as the first read left it
GetItemAgain ==
    /\ obj # None
    /\ obj.self.class = "DriverDrowsinessDataset"
    /\ call # None
    /\ prev = None
    /\ \E idx \in 0..(Len(obj.self.sequences) - 1) :
        call' = [idx |-> idx, rng |-> call.result.rng,
                 result |-> GetItemOf(obj.self, idx, call.result.rng)]
    /\ prev' = call
    /\ UNCHANGED obj

DataNext ==
    \/ ConstructDataset
    \/ GetItem
    \/ GetItemAgain

SpecData == InitNone /\ [][DataNext]_vars

(***************************************************************************)
(* Properties of PatchEmbedding.                                           *)
(***************************************************************************)
IsPatchEmbedding == obj # None /\ obj.self.class = "PatchEmbedding"

Divisible(a) == a.img_size % a.patch_size = 0

\* the input has the documented shape [B, in_channels, img_size, img_size]
PatchInputOk(a, x) ==
    /\ Ndim(x) = 4
    /\ x.shape[2] = a.in_channels
    /\ x.shape[3] = a.img_size
    /\ x.shape[4] = a.img_size

\* C1: constructing PatchEmbedding with positive img_size and patch_size
\* raises at construction exactly when img_size is not divisible by
\* patch_size; an indivisible configuration never yields an instance on
\* which forward is called.
C1_ConstructionFailsIffIndivisible ==
    IsPatchEmbedding =>
        /\ (obj.self.error # "none") <=> ~Divisible(obj.args)
        /\ ~Divisible(obj.args) => (obj.self.error = "ValueError" /\ call = None)

C1_Witness ==
    /\ IsPatchEmbedding
    /\ obj.args.img_size = 4
    /\ obj.args.patch_size = 3
    /\ obj.self.error = "ValueError"

\* C8: for every valid configuration and batch size B, forward on an input
\* [B, in_channels, img_size, img_size] returns a tensor of shape
\* [B, (img_size / patch_size)^2, embed_dim], whose sequence length is the
\* module's num_patches.
C8_PatchSequenceShape ==
    (IsPatchEmbedding /\ call # None /\ PatchInputOk(obj.args, call.x)) =>
        LET n == obj.args.img_size \div obj.args.patch_size
        IN  /\ call.result.error = "none"
            /\ call.result.out.shape = <<call.x.shape[1], n * n, obj.args.embed_dim>>
            /\ call.result.out.shape[2] = obj.self.num_patches
            /\ Len(call.result.out.data) = Numel(call.result.out.shape)

C8_Witness ==
    /\ IsPatchEmbedding
    /\ call # None
    /\ PatchInputOk(obj.args, call.x)
    /\ obj.args.img_size = 4
    /\ obj.args.patch_size = 2
    /\ obj.args.embed_dim = 2
    /\ call.x.shape[1] = 2
    /\ call.result.error = "none"
    /\ call.result.out.shape = <<2, 4, 2>>

\* C9: forward fails with the module's shape error (ValueError), and returns
\* no patch sequence, whenever the input's channel count, height or width
\* differs from the configuration.
C9_ShapeErrorOnAnyMismatch ==
    (IsPatchEmbedding /\ call # None /\ Ndim(call.x) = 4
       /\ ~PatchInputOk(obj.args, call.x)) =>
        call.result.error = "ValueError"

(***************************************************************************)
(* Properties of PositionalEncoding.                                       *)
(***************************************************************************)
IsPositionalEncoding == obj # None /\ obj.self.class = "PositionalEncoding"

\* C10: PositionalEncoding fails at construction iff embed_dim is odd; forward
\* fails if the input's width differs from the table's or its length L exceeds
\* max_len, and otherwise returns a tensor of the input's shape equal to the
\* input plus rows 0..L-1 of the table, row p at position p of every batch
\* element; the table stays as it was built.
C10_PositionalEncodingContract ==
    IsPositionalEncoding =>
        /\ (obj.self.error # "none") <=> (obj.args.embed_dim % 2 = 1)
        /\ obj.self.error = "none" =>
              /\ obj.self.pe.shape = <<1, obj.args.max_len, obj.args.embed_dim>>
              /\ \A p \in 0..(obj.args.max_len - 1), c \in 0..(obj.args.embed_dim - 1) :
                    At3(obj.self.pe, 0, p, c) = PEEntry(p, c, obj.args.embed_dim)
        /\ call # None =>
              LET x == call.x
                  r == call.result
              IN  IF x.shape[3] # obj.args.embed_dim \/ x.shape[2] > obj.args.max_len
                  THEN r.error = "ValueError"
                  ELSE /\ r.error = "none"
                       /\ r.out.shape = x.shape
                       /\ \A b \in 0..(x.shape[1] - 1), p \in 0..(x.shape[2] - 1),
                             c \in 0..(x.shape[3] - 1) :
                             At3(r.out, b, p, c)
                               = RAdd(At3(x, b, p, c), PEEntry(p, c, obj.args.embed_dim))

C10_Witness ==
    /\ IsPositionalEncoding
    /\ call # None
    /\ obj.args.embed_dim = 4
    /\ obj.args.max_len = 3
    /\ call.x.shape = <<2, 3, 4>>
    /\ call.result.error = "none"
    /\ At3(call.result.out, 1, 2, 1) # At3(call.x, 1, 2, 1)

(***************************************************************************)
(* Properties of MultiHeadSelfAttention.                                   *)
(***************************************************************************)
IsAttention == obj # None /\ obj.self.class = "MultiHeadSelfAttention"

AttentionCalled == IsAttention /\ call # None /\ call.result.error = "none"

\* batch rows of the call whose mask is all zeros
FullyMaskedRows ==
    IF call.mask = None THEN {}
    ELSE {b \in 0..(call.x.shape[1] - 1) :
            \A j \in 0..(call.x.shape[2] - 1) : MaskAt(call.mask, b, j) = 0}

\* C2 as stated: a batch row whose mask is all zeros gets an all-zero output
\* (no not-a-number) at every position and channel, whatever x and the
\* weights are.
C2_FullyMaskedRowIsZero ==
    AttentionCalled =>
        \A b \in FullyMaskedRows :
            \A i \in 0..(call.x.shape[2] - 1), c \in 0..(call.x.shape[3] - 1) :
                At3(call.result.out, b, i, c) = R(0)

\* C2 amended: a batch row whose mask is all zeros gets, at every position,
\* the bias of the output projection (no not-a-number, independent of x);
\* it is all zero exactly when that bias is zero.
C2_FullyMaskedRowIsProjBias ==
    AttentionCalled =>
        \A b \in FullyMaskedRows :
            \A i \in 0..(call.x.shape[2] - 1), c \in 0..(call.x.shape[3] - 1) :
                /\ ~IsNaN(At3(call.result.out, b, i, c))
                /\ At3(call.result.out, b, i, c) = obj.self.proj.bias[c + 1]

C2_Witness ==
    /\ AttentionCalled
    /\ call.x.shape = <<2, 2, 2>>
    /\ FullyMaskedRows = {1}
    /\ obj.self.proj.bias[1] # R(0)
    /\ At3(call.result.out, 1, 1, 0) = obj.self.proj.bias[1]
    /\ At3(call.result.out, 0, 1, 0) # obj.self.proj.bias[1]

(***************************************************************************)
(* Properties of TemporalTransformerEncoder.                               *)
(***************************************************************************)
IsTemporal == obj # None /\ obj.self.class = "TemporalTransformerEncoder"

TemporalCalled == IsTemporal /\ call # None /\ call.result.error = "none"

\* the frames of clip b the mask marks valid
ValidFrames(mask, b) == {l \in 0..(mask.shape[2] - 1) : MaskAt(mask, b, l) = 1}

\* sum of f[l] over a finite set S of frame indices
RECURSIVE SumOver(_, _)
SumOver(S, f) ==
    IF S = {} THEN R(0)
    ELSE LET l == CHOOSE l \in S : TRUE
         IN  RAdd(f[l], SumOver(S \ {l}, f))

Max(a, b) == IF a > b THEN a ELSE b

\* C4: with a mask, the result for each clip is the sum of the post-encoder
\* vectors at the positions with mask = 1 divided by max(number of valid
\* positions, 1) (the zero vector for an all-zero mask); without a mask it is
\* the plain mean over all positions.
C4_MaskedMeanOfValidFrames ==
    TemporalCalled =>
        LET post == call.result.post
        IN  \A b \in 0..(call.x.shape[1] - 1), c \in 0..(call.x.shape[3] - 1) :
              LET got == call.result.out.data[b * call.x.shape[3] + c + 1]
                  At == [l \in 0..(call.x.shape[2] - 1) |-> At3(post, b, l, c)]
              IN  IF call.mask # None
                  THEN LET valid == ValidFrames(call.mask, b)
                       IN  /\ got = RDiv(SumOver(valid, At), R(Max(Cardinality(valid), 1)))
                           /\ valid = {} => got = R(0)
                  ELSE got = RDiv(SumOver(0..(call.x.shape[2] - 1), At), R(call.x.shape[2]))

\* two valid frames and a masked one whose vector differs from their mean
C4_Witness ==
    /\ TemporalCalled
    /\ call.mask # None
    /\ call.x.shape[2] = 3
    /\ ValidFrames(call.mask, 0) = {0, 1}
    /\ At3(call.result.post, 0, 0, 0) # At3(call.result.post, 0, 1, 0)
    /\ call.result.out.data[1]
         = RDiv(RAdd(At3(call.result.post, 0, 0, 0), At3(call.result.post, 0, 1, 0)), R(2))
    /\ call.result.out.data[1] # MeanDim1(call.result.post).data[1]

(***************************************************************************)
(* Properties of VisionTransformer's recurrent path.                       *)
(***************************************************************************)
IsRecurrent ==
    /\ obj # None
    /\ obj.self.class = "VisionTransformer"
    /\ obj.self.use_temporal_model

\* the recurrent path was run on a clip batch
RecurrentCalled == IsRecurrent /\ call # None /\ Ndim(call.x) = 5

\* the number of frames of clip b (one-based) the mask of a call marks valid
ValidLength(c, b) ==
    IF c.seq_mask = None THEN c.x.shape[2]
    ELSE Cardinality({l \in 1..c.x.shape[2] : MaskAt(c.seq_mask, b - 1, l - 1) = 1})

\* the recurrent output of clip b (one-based) of a call on its own, at step t
OwnOutput(c, b, t) ==
    LstmClip(obj.self.temporal_model, ClipFrames(c.result.features, b - 1),
             ValidLength(c, b), c.x.shape[2])[t]

\* row b (one-based) of a rank-2 tensor
Row(t, b) == [k \in 1..t.shape[2] |-> t.data[(b - 1) * t.shape[2] + k]]

\* C3: in the recurrent path, when every clip has at least one valid frame,
\* the hidden state selected for clip b is clip b's own recurrent output at
\* time index (valid length of b) - 1, whichever order the sort produced.
C3_OwnLastValidOutput ==
    (RecurrentCalled /\ \A b \in 1..call.x.shape[1] : ValidLength(call, b) >= 1)
        => /\ call.result.error = "none"
           /\ \A b \in 1..call.x.shape[1] :
                /\ call.result.last_indices[b] = ValidLength(call, b) - 1
                /\ Row(call.result.last_outputs, b)
                     = OwnOutput(call, b, ValidLength(call, b))

\* a batch whose first clip is the shorter one, so that the sort reorders it
C3_Witness ==
    /\ RecurrentCalled
    /\ call.x.shape[1] = 2
    /\ call.result.error = "none"
    /\ ValidLength(call, 1) < ValidLength(call, 2)
    /\ Row(call.result.last_outputs, 1) # Row(call.result.last_outputs, 2)

\* C6: in the recurrent path the forward pass completes for every sequence
\* mask, a clip without any valid frame included, and selects the hidden
\* state at time index max(length - 1, 0) for each clip.
C6_CompletesWithEmptyClip ==
    (RecurrentCalled /\ call.seq_mask # None)
        => /\ call.result.error = "none"
           /\ \A b \in 1..call.x.shape[1] :
                call.result.last_indices[b]
                    = Max(ValidLength(call, b) - 1, 0)

\* the frames of clip b (one-based) with mask = 1 carry the same features
\* in both calls
AgreeOnValidFrames ==
    /\ prev.x.shape = call.x.shape
    /\ prev.seq_mask = call.seq_mask
    /\ \A b \in 1..call.x.shape[1], l \in 1..call.x.shape[2] :
         (call.seq_mask = None \/ MaskAt(call.seq_mask, b - 1, l - 1) = 1)
            => \A k \in 1..FeatureDim :
                 At3(prev.result.features, b - 1, l - 1, k - 1)
                    = At3(call.result.features, b - 1, l - 1, k - 1)

\* C7: in the recurrent path, two clip batches that agree on the sequence
\* mask and on the features of every frame with mask = 1 produce the same
\* logits, whatever the frames with mask = 0 hold.
C7_PaddedFramesNeverInfluence ==
    (RecurrentCalled /\ prev # None /\ AgreeOnValidFrames)
        => /\ prev.result.error = call.result.error
           /\ call.result.error = "none"
                => prev.result.logits = call.result.logits

(***************************************************************************)
(* Properties of the image-level mask.                                     *)
(***************************************************************************)
IsVideoModel ==
    /\ obj # None
    /\ obj.self.class \in {"VisionTransformer", "VisionTransformerWithTemporal"}

\* two calls on one model with the same clips and the same sequence mask
SameButImgMask ==
    /\ IsVideoModel
    /\ prev # None
    /\ prev.x = call.x
    /\ prev.seq_mask = call.seq_mask

\* C5: for both video models, two calls that agree on x and seq_mask and
\* differ in img_mask (None against a tensor included) end in the same error
\* outcome and, when they complete, in identical logits.
C5_ImgMaskNeverAffectsResult ==
    SameButImgMask
        => /\ prev.result.error = call.result.error
           /\ call.result.error = "none" => prev.result.logits = call.result.logits

\* both models called without an image-level mask and then with one that
\* marks some frame invalid, on a completing call
C5_WitnessVisionTransformer ==
    /\ SameButImgMask
    /\ obj.self.class = "VisionTransformer"
    /\ prev.img_mask = None
    /\ call.img_mask # None
    /\ \E n \in 1..Len(call.img_mask.data) : call.img_mask.data[n] = 0
    /\ call.result.error = "none"

C5_Witness ==
    /\ SameButImgMask
    /\ obj.self.class = "VisionTransformerWithTemporal"
    /\ prev.img_mask = None
    /\ call.img_mask # None
    /\ \E n \in 1..Len(call.img_mask.data) : call.img_mask.data[n] = 0
    /\ call.result.error = "none"

(***************************************************************************)
(* Properties of VisionTransformerWithTemporal.                            *)
(***************************************************************************)
IsVTWT ==
    /\ obj # None
    /\ obj.self.class = "VisionTransformerWithTemporal"

\* the configuration invariants of VisionTransformerWithTemporal
ConfigurationValid(a) ==
    /\ a.img_size % a.patch_size = 0
    /\ a.embed_dim % 2 = 0
    /\ a.embed_dim % a.num_heads = 0
    /\ a.embed_dim % a.temporal_num_heads = 0
    /\ a.depth >= 1
    /\ a.temporal_num_layers >= 1

\* C11: VisionTransformerWithTemporal is constructed only if img_size is
\* divisible by patch_size, embed_dim is even and divisible by num_heads and
\* by temporal_num_heads, and depth and temporal_num_layers are at least 1;
\* otherwise the constructor raises and forward is never called.
C11_ConstructedOnlyIfConfigurationValid ==
    IsVTWT =>
        /\ obj.self.error = "none" => ConfigurationValid(obj.args)
        /\ ~ConfigurationValid(obj.args) => (obj.self.error # "none" /\ call = None)

\* a configuration whose only fault is embed_dim not divisible by num_heads
C11_Witness ==
    /\ IsVTWT
    /\ obj.args.embed_dim % obj.args.num_heads # 0
    /\ obj.args.img_size % obj.args.patch_size = 0
    /\ obj.args.embed_dim % 2 = 0
    /\ obj.args.embed_dim % obj.args.temporal_num_heads = 0
    /\ obj.args.depth >= 1
    /\ obj.args.temporal_num_layers >= 1
    /\ obj.self.error = "AssertionError"

\* the input of a call is a rank-5 tensor whose height is the configured
\* image size and whose width is its height
VideoInputSquare(x) ==
    /\ Ndim(x) = 5
    /\ x.shape[4] = obj.args.img_size
    /\ x.shape[5] = x.shape[4]

\* C12: VisionTransformer.forward raises an assertion error on every input
\* that is not rank-5; VisionTransformerWithTemporal.forward fails on every
\* input that is not rank-5, whose height is not the configured image size,
\* or whose width is not its height; a failed call returns no logits.
C12_ShapeErrorsBeforeLogits ==
    (IsVideoModel /\ call # None) =>
        /\ (obj.self.class = "VisionTransformer" /\ Ndim(call.x) # 5)
              => call.result.error = "AssertionError"
        /\ (IsVTWT /\ ~VideoInputSquare(call.x)) => call.result.error # "none"
        /\ call.result.error # "none" => "logits" \notin DOMAIN call.result

\* a rank-4 input to VisionTransformer.forward
C12_Witness ==
    /\ IsVideoModel
    /\ obj.self.class = "VisionTransformer"
    /\ call # None
    /\ Ndim(call.x) = 4
    /\ call.result.error = "AssertionError"

\* a clip batch of square images of another size than the configured one
C12_WitnessHeight ==
    /\ IsVTWT
    /\ call # None
    /\ Ndim(call.x) = 5
    /\ call.x.shape[4] # obj.args.img_size
    /\ call.x.shape[5] = call.x.shape[4]
    /\ call.result.error = "AssertionError"

\* the forward pass of a call got as far as the positional encoding
PositionalEncodingReached == IsVTWT /\ call # None /\ "tokens" \in DOMAIN call.result

\* C16: the sequence handed to the positional encoding has num_patches + 1
\* positions with the class token (which sits at position 0 of every image's
\* sequence) and num_patches without, which is the length of the table built
\* at construction; no rank-5 call fails in the positional encoding.
C16_SequenceLengthIsTableLength ==
    /\ PositionalEncodingReached =>
          LET tokens == call.result.tokens
              self == obj.self
          IN  /\ tokens.shape[2]
                   = self.patch_embed.num_patches + (IF self.use_cls_token THEN 1 ELSE 0)
              /\ tokens.shape[2] = self.pos_encoder.pe.shape[2]
              /\ self.use_cls_token =>
                   \A n \in 0..(tokens.shape[1] - 1), c \in 0..(tokens.shape[3] - 1) :
                       At3(tokens, n, 0, c) = self.cls_token[c + 1]
    /\ (IsVTWT /\ call # None /\ Ndim(call.x) = 5) => call.result.error # "ValueError"

\* four patches and the class token: five positions, and the call completes
C16_Witness ==
    /\ PositionalEncodingReached
    /\ obj.self.use_cls_token
    /\ obj.self.patch_embed.num_patches = 4
    /\ call.result.tokens.shape[2] = 5
    /\ call.result.error = "none"

\* without the class token the sequence is the patches alone
C16_WitnessNoClsToken ==
    /\ PositionalEncodingReached
    /\ ~obj.self.use_cls_token
    /\ call.result.tokens.shape[2] = obj.self.patch_embed.num_patches
    /\ call.result.error = "none"

(***************************************************************************)
(* Properties of the two pooling steps.                                    *)
(***************************************************************************)
PooledBothWays == obj # None /\ obj.self.class = "Pooling" /\ call # None

\* C13: on every feature tensor and every 0/1 mask [batch, frames], and
\* without a mask, the pooling of VisionTransformer's non-temporal path and
\* the pooling step of TemporalTransformerEncoder return the same tensor.
C13_PoolingStepsAgree ==
    PooledBothWays => call.pooled = call.temporal

\* a clip with no valid frame next to a finite feature tensor: both steps
\* divide by the clamped count
C13_Witness ==
    /\ PooledBothWays
    /\ call.mask # None
    /\ call.x.shape[2] = 3
    /\ ValidFrames(call.mask, 0) = {}
    /\ \E n \in 1..Len(call.x.data) : call.x.data[n] # R(0) /\ IsFinite(call.x.data[n])
    /\ call.pooled.data[1] = R(0)
    /\ call.temporal.data[1] = R(0)

\* a partly masked clip whose masked mean differs from its plain mean
C13_WitnessPartial ==
    /\ PooledBothWays
    /\ call.mask # None
    /\ ValidFrames(call.mask, 0) = {0, 1}
    /\ call.x.shape[2] = 3
    /\ IsFinite(call.pooled.data[1])
    /\ call.pooled.data[1] # MeanDim1(call.x).data[1]

(***************************************************************************)
(* Properties of the missing sequence mask.                                *)
(***************************************************************************)
\* one input called without a mask and then with the all-ones mask
WithoutMaskThenAllOnes ==
    /\ obj # None
    /\ obj.self.class \in {"TemporalTransformerEncoder", "VisionTransformer"}
    /\ prev # None
    /\ prev.x = call.x
    /\ prev.seq_mask = None
    /\ call.seq_mask = OnesMask(call.x.shape[1], call.x.shape[2])

\* C17: TemporalTransformerEncoder.forward and both paths of
\* VisionTransformer.forward return for the all-ones mask what they return
\* without a mask; in the recurrent path every clip's selected time index is
\* frames - 1 in both calls.
C17_NoMaskIsAllOnesMask ==
    WithoutMaskThenAllOnes =>
        /\ prev.result = call.result
        /\ call.result.error = "none"
        /\ (obj.self.class = "VisionTransformer" /\ obj.self.use_temporal_model) =>
              \A b \in 1..call.x.shape[1] :
                  /\ prev.result.last_indices[b] = call.x.shape[2] - 1
                  /\ call.result.last_indices[b] = call.x.shape[2] - 1

\* the recurrent path on two clips of three frames
C17_Witness ==
    /\ WithoutMaskThenAllOnes
    /\ obj.self.class = "VisionTransformer"
    /\ obj.self.use_temporal_model
    /\ call.x.shape[1] = 2
    /\ call.x.shape[2] = 3
    /\ call.result.last_indices = <<2, 2>>
    /\ call.result.logits = prev.result.logits

\* the temporal encoder on clips of three frames
C17_WitnessTemporal ==
    /\ WithoutMaskThenAllOnes
    /\ obj.self.class = "TemporalTransformerEncoder"
    /\ call.x.shape[2] = 3
    /\ call.result.out = prev.result.out

\* the pooling path on clips of three frames
C17_WitnessPooling ==
    /\ WithoutMaskThenAllOnes
    /\ obj.self.class = "VisionTransformer"
    /\ ~obj.self.use_temporal_model
    /\ call.x.shape[2] = 3
    /\ call.result.logits = prev.result.logits

(***************************************************************************)
(* Properties of DriverDrowsinessDataset                                   *)
(***************************************************************************)
IsDataset == obj # None /\ obj.self.class = "DriverDrowsinessDataset"

\* the sequence directories of the tree as <<label, k>>, those of 'pos' first
SequenceDirs(tree) ==
    UNION { { <<label, k>> : k \in 1..Len(tree[label].dirs) } :
            label \in {"pos", "neg"} }

\* the image files of sequence directory d
ImagesIn(tree, d) ==
    { tree[d[1]].dirs[d[2]][i] : i \in { j \in 1..Len(tree[d[1]].dirs[d[2]]) :
                                           tree[d[1]].dirs[d[2]][j].image } }

\* the file of rank r (zero-based) among the image files of d in name order
FileOfRank(tree, d, r) ==
    CHOOSE f \in ImagesIn(tree, d) :
        Cardinality({ g \in ImagesIn(tree, d) : g.name < f.name }) = r

\* the positions in `sequences` of the windows of directory d
WindowsOfDir(self, d) ==
    { w \in 1..Len(self.sequences) :
        \E k \in 1..Len(self.sequences[w]) :
            self.sequences[w][k] # None /\ self.sequences[w][k].dir = d }

\* the j-th (zero-based) position of the set of positions W
NthOf(W, j) == CHOOSE w \in W : Cardinality({ v \in W : v < w }) = j

\* the windows of directory d are those of the start offsets 0, s, 2s, ...
\* below n, each of seq_len slots: consecutive sorted files, then None only
DirWindowed(tree, self, d, n, s) ==
    /\ Cardinality(WindowsOfDir(self, d)) = Cardinality({ i \in 0..(n - 1) : i % s = 0 })
    /\ \A j \in 0..(Cardinality(WindowsOfDir(self, d)) - 1) :
        LET w == self.sequences[NthOf(WindowsOfDir(self, d), j)]
        IN  /\ Len(w) = self.seq_len
            /\ w[1] # None
            /\ \A k \in 1..Len(w) :
                IF j * s + k <= n
                THEN w[k] = [dir |-> d, file |-> FileOfRank(tree, d, j * s + k - 1)]
                ELSE w[k] = None
    /\ \A f \in ImagesIn(tree, d) :
        \E w \in WindowsOfDir(self, d), k \in 1..self.seq_len :
            self.sequences[w][k] # None /\ self.sequences[w][k].file = f

\* C18: for seq_len >= 2 a sequence directory of n image files yields one
\* window per start offset 0, s, 2s, ... < n with s = seq_len // 2, each of
\* seq_len slots holding consecutive sorted files as a non-empty prefix and
\* None after it, every file is in a window, and sequences and labels have
\* the same length with label 1 for 'pos' and 0 for 'neg'
C18_WindowsCoverEveryFile ==
    (IsDataset /\ obj.self.error = "none" /\ obj.args.seq_len >= 2) =>
        /\ \A d \in SequenceDirs(obj.args.tree) :
            DirWindowed(obj.args.tree, obj.self, d,
                        Cardinality(ImagesIn(obj.args.tree, d)), obj.args.seq_len \div 2)
        /\ Len(obj.self.labels) = Len(obj.self.sequences)
        /\ \A w \in 1..Len(obj.self.sequences) :
            /\ Len(obj.self.sequences[w]) = obj.args.seq_len
            /\ obj.self.sequences[w][1] # None
            /\ obj.self.labels[w]
                 = (IF obj.self.sequences[w][1].dir[1] = "pos" THEN 1 ELSE 0)

\* a dataset with a padded last window, overlapping windows and both labels
C18_Witness ==
    /\ IsDataset
    /\ obj.self.error = "none"
    /\ obj.args.seq_len = 3
    /\ Len(obj.self.sequences) = 4
    /\ obj.self.sequences[3][2] = None
    /\ obj.self.sequences[1][3] # None
    /\ obj.self.labels = <<1, 1, 1, 0>>
    /\ obj.args.tree.pos.dirs[1][1] = NotesFile

\* a read of a valid index
ValidIndexRead ==
    /\ IsDataset
    /\ call # None
    /\ call.idx < Len(obj.self.sequences)

\* slot k of the window read holds a real path whose file decodes
SlotDecodes(k) ==
    /\ obj.self.sequences[call.idx + 1][k] # None
    /\ obj.self.sequences[call.idx + 1][k].file.ok

\* what a completed read returns: seq_len frames, a boolean mask of length
\* seq_len that is true exactly at the slots that decoded, a black picture
\* wherever the mask is false, and a label in {0, 1}
ItemWellFormed ==
    /\ Len(call.result.images) = obj.args.seq_len
    /\ Len(call.result.mask) = obj.args.seq_len
    /\ call.result.label \in {0, 1}
    /\ \A k \in 1..obj.args.seq_len :
        /\ call.result.mask[k] \in BOOLEAN
        /\ call.result.mask[k] <=> SlotDecodes(k)
        /\ ~call.result.mask[k] => call.result.images[k].black

\* C14: __getitem__ returns for every valid index exactly seq_len frames, a
\* boolean mask of length seq_len and a label in {0, 1}; mask[i] is true iff
\* slot i holds a real path that decoded, and a padding slot or a slot whose
\* decode failed holds an all-zero dummy image with mask false
C14_EveryValidIndexReturnsItem ==
    ValidIndexRead => (call.result.error = "none" /\ ItemWellFormed)

\* the reads that complete do return such an item
C14_CompletedReadsWellFormed ==
    (ValidIndexRead /\ call.result.error = "none") => ItemWellFormed

\* a completed read of a window with a padding slot and a failed decode
C14_WitnessCompleted ==
    /\ ValidIndexRead
    /\ call.result.error = "none"
    /\ obj.args.seq_len = 3
    /\ obj.self.sequences[call.idx + 1][3] = None
    /\ obj.self.sequences[call.idx + 1][2] # None
    /\ call.result.mask = <<TRUE, FALSE, FALSE>>

\* a read of a padded window that raises: the picture is not of the default
\* size and no transform resizes it
C14_WitnessStackFails ==
    /\ ValidIndexRead
    /\ call.result.error = "RuntimeError"
    /\ obj.args.transform = None
    /\ \E k \in 1..obj.args.seq_len : obj.self.sequences[call.idx + 1][k] = None

\* two completed reads of the same index of a train split with a transform
SameIndexTwice ==
    /\ IsDataset
    /\ obj.args.split = "train"
    /\ obj.args.transform # None
    /\ prev # None
    /\ prev.idx = call.idx
    /\ prev.result.error = "none"
    /\ call.result.error = "none"

\* C15: on the train split with a transform the augmentation of
\* __getitem__(idx) is determined by idx alone, whatever the state of the
\* global random generator and whatever was read before
C15_AugmentationDeterminedByIndex ==
    SameIndexTwice =>
        \A k \in 1..obj.args.seq_len :
            call.result.images[k].aug = prev.result.images[k].aug

====
